---- MODULE Spec2Model ----
(***************************************************************************)
(* Fund accounting engine of simple-fund-tracking                          *)
(* (src/lib/utils/fund-calculations.ts) and the render cycle of the        *)
(* usePortfolio hook that calls it.                                        *)
(*                                                                         *)
(* Numbers.  A JavaScript number is modelled as a pair <<n, d>>:           *)
(*   d > 0, gcd(n, d) = 1   the finite value n / d                         *)
(*   <<1, 0>>, <<-1, 0>>    +Infinity, -Infinity                           *)
(*   <<0, 0>>               NaN                                            *)
(* Arithmetic is exact on the finite values (IEEE rounding, overflow and   *)
(* the sign of zero are not modelled) and follows IEEE 754 on division by  *)
(* zero, the infinities and NaN.                                           *)
(***************************************************************************)
EXTENDS Integers, Sequences, FiniteSets, TLC

\* ------------------------------------------------------------ bounds
\* Longest ledger handed to the engine.
MaxLen == 3

\* ------------------------------------------------------------ numbers
Abs(x) == IF x < 0 THEN -x ELSE x

Sign(x) == IF x > 0 THEN 1 ELSE IF x < 0 THEN -1 ELSE 0

RECURSIVE GCD(_, _)
GCD(a, b) == IF b = 0 THEN a ELSE GCD(b, a % b)

\* The number n / d in lowest terms; a zero denominator gives an infinity or NaN.
Norm(n, d) ==
    IF d = 0 THEN <<Sign(n), 0>>
    ELSE LET g == GCD(Abs(n), Abs(d))
         IN  <<(Sign(d) * n) \div g, Abs(d) \div g>>

Num(k) == <<k, 1>>
Zero == <<0, 1>>
NaN == <<0, 0>>
PosInf == <<1, 0>>
NegInf == <<-1, 0>>

IsNaN(a) == a = NaN

\* a + b
Add(a, b) ==
    IF IsNaN(a) \/ IsNaN(b) THEN NaN
    ELSE IF a[2] = 0 /\ b[2] = 0 THEN (IF a = b THEN a ELSE NaN)
    ELSE IF a[2] = 0 THEN a
    ELSE IF b[2] = 0 THEN b
    ELSE Norm(a[1] * b[2] + b[1] * a[2], a[2] * b[2])

Neg(a) == <<-a[1], a[2]>>

\* a - b
Sub(a, b) == Add(a, Neg(b))

\* a * b  (Infinity * 0 is NaN)
Mul(a, b) == Norm(a[1] * b[1], a[2] * b[2])

\* a / b  (x / 0 is +-Infinity, 0 / 0 and Infinity / Infinity are NaN)
Div(a, b) ==
    IF IsNaN(a) \/ IsNaN(b) THEN NaN
    ELSE IF b[2] = 0 THEN (IF a[2] = 0 THEN NaN ELSE Zero)
    ELSE IF b[1] = 0 THEN <<Sign(a[1]), 0>>
    ELSE IF a[2] = 0 THEN <<a[1] * Sign(b[1]), 0>>
    ELSE Norm(a[1] * b[2], a[2] * b[1])

\* a < b  (false when either side is NaN)
Lt(a, b) ==
    /\ ~IsNaN(a)
    /\ ~IsNaN(b)
    /\ IF a[2] = 0 /\ b[2] = 0 THEN a[1] < b[1]
       ELSE a[1] * b[2] < b[1] * a[2]

\* a <= b  (false when either side is NaN)
Leq(a, b) == ~IsNaN(a) /\ ~IsNaN(b) /\ (a = b \/ Lt(a, b))

\* Math.min(a, b), Math.max(a, b): NaN when either argument is NaN
MathMin(a, b) == IF IsNaN(a) \/ IsNaN(b) THEN NaN ELSE IF Lt(b, a) THEN b ELSE a
MathMax(a, b) == IF IsNaN(a) \/ IsNaN(b) THEN NaN ELSE IF Lt(a, b) THEN b ELSE a

\* The value undefined (an absent optional field, a key a Map does not hold).
Undefined == <<>>

\* x || 0 : undefined, 0 and NaN are falsy
OrZero(x) == IF x = Undefined \/ x = Zero \/ x = NaN THEN Zero ELSE x

\* x ?? y : only undefined (or null) is replaced
Coalesce(x, y) == IF x = Undefined THEN y ELSE x

\* ------------------------------------------------------------ strings
\* A date string is the sequence of its characters; here the two digits in which
\* the dates of a ledger differ, zero padded as in 'YYYY-MM-DD'.  <<>> is ''.
EmptyString == <<>>

\* The value undefined where a date string is expected.
UndefinedDate == <<"undefined">>

\* s <= t on strings: code unit by code unit, a proper prefix is smaller
RECURSIVE StrLeq(_, _)
StrLeq(s, t) ==
    IF s = <<>> THEN TRUE
    ELSE IF t = <<>> THEN FALSE
    ELSE IF s[1] < t[1] THEN TRUE
    ELSE IF s[1] > t[1] THEN FALSE
    ELSE StrLeq(Tail(s), Tail(t))

\* The value undefined where a token symbol is expected (no symbol is this string).
UndefinedSymbol == "<undefined>"

\* Truthiness of an optional string: undefined and '' are falsy.
Truthy(s) == s # UndefinedSymbol /\ s # ""

\* ------------------------------------------------------------ inputs
\* Transaction (src/lib/types/portfolio.ts).  id and priceAtTransaction are left
\* out: the engine never reads them.
Tx(type, date, sym, amount, q, usd) ==
    [type |-> type, date |-> date, tokenSymbol |-> sym, amount |-> amount,
     quotaValueAtTransaction |-> q, usdValue |-> usd]

D02 == <<0, 2>>
D10 == <<1, 0>>

\* The transactions ledgers are drawn from.
Transactions ==
    { Tx("DEPOSIT",  D02, UndefinedSymbol, Num(3), Undefined, Num(3)),
      Tx("WITHDRAW", D10, UndefinedSymbol, Num(4), Num(2),    Num(4)),
      Tx("BUY",      D02, "A",             Num(2), Undefined, Num(4)),
      Tx("BUY",      D10, "A",             Num(2), Undefined, Num(-2)),
      Tx("BUY",      D02, "B",             Num(3), Undefined, Num(2)),
      Tx("BUY",      D10, "",              Num(1), Undefined, Num(1)),
      Tx("SELL",     D10, "A",             Num(1), Undefined, Num(3)),
      Tx("SELL",     D02, "A",             Num(5), Undefined, Num(1)) }

RECURSIVE SeqsUpTo(_, _)
SeqsUpTo(S, n) ==
    IF n = 0 THEN {<<>>}
    ELSE LET shorter == SeqsUpTo(S, n - 1)
         IN  shorter \cup {Append(s, x) : s \in shorter, x \in S}

Ledgers == SeqsUpTo(Transactions, MaxLen)

\* Cutoffs: none (the callers turn '' into undefined), or the day of the earlier
\* transactions.
Cutoffs == {UndefinedDate, D02}

\* Initial quota values of the settings (v.number(): zero is accepted).
QuotaValues == {Zero, Num(2)}

\* Totals of the valued items handed to calculateQuotaValue.
TotalValues == {Zero, Num(3)}

\* ------------------------------------------------------------ Map<string, number>
\* A Map is a function whose domain is the set of its keys.
EmptyMap == [s \in {} |-> Zero]

MapGet(m, k) == IF k \in DOMAIN m THEN m[k] ELSE Undefined

MapSet(m, k, v) == [s \in DOMAIN m \cup {k} |-> IF s = k THEN v ELSE m[s]]

\* ------------------------------------------------------------ state
VARIABLES
    transactions,       \* the ledger handed to the engine
    upToDate,           \* the cutoff handed to the engine
    initialQuotaValue,  \* settings.initialQuotaValue
    pc,                 \* "idle", or the function that is running
    filteredTransactions,  \* local of the running function
    idx,                \* number of filteredTransactions the for loop has taken
    totalShares,        \* processTransactions: let totalShares
    cashBalance,        \* processTransactions: let cashBalance
    holdings,           \* processTransactions: const holdings
    costBasis,          \* calculateCostBasis: const costBasis
    costHoldings,       \* calculateCostBasis: const holdings
    fundState,          \* <<the FundState last returned>>, <<>> before the first
    costBasisMap,       \* <<the cost map last returned>>, <<>> before the first
    summary,            \* <<the last summary>>, <<>> when no summary is current
    tokens,             \* the token registry (snapshot.tokens)
    currentPrices,      \* the price map: pricing id -> price
    baselineTotalValue, \* settings.baselineTotalValue
    portfolio,          \* <<what buildPortfolioFromPrices last returned>>
    tableItems,         \* <<what aggregateBitcoinEthereumCategories last returned>>
    historyValue,       \* <<what calculatePortfolioValue last returned>>
    requested,          \* <<the pricing ids last asked of the price sources>>
    portfolioTransactions,  \* the table portfolioTransactions, in creation order
    portfolioDaily,     \* the table portfolioDaily, in creation order
    snapshot,           \* <<the transactions getSnapshot last returned>>
    backfill,           \* handleBackfill: where the run is, and what it captured
    replays,            \* the frames of the replays running side by side
    maps,               \* the Map objects those replays have created
    provider,           \* PortfolioDateProvider: its state, its ref and its fetch loops
    retry               \* fetchPricesWithRetry: where the call is

vars == <<transactions, upToDate, initialQuotaValue, pc, filteredTransactions, idx,
          totalShares, cashBalance, holdings, costBasis, costHoldings,
          fundState, costBasisMap, summary,
          tokens, currentPrices, baselineTotalValue, portfolio, tableItems,
          historyValue, requested, portfolioTransactions, portfolioDaily, snapshot,
          backfill, replays, maps, provider, retry>>

\* The backfill of the history section and the replays it starts.
workflows == <<backfill, replays, maps, provider, retry>>

\* No backfill has been started.
NoBackfill ==
    [pc |-> "idle", missingDates |-> <<>>, transactions |-> <<>>, tokens |-> <<>>,
     initialQuotaValue |-> Zero, i |-> 0, aborted |-> FALSE, args |-> <<>>]

\* PortfolioDateProvider before its first render.
NoProvider == <<>>

\* fetchPricesWithRetry has not been called.
NoRetry == <<>>

WorkflowsIdle ==
    /\ backfill = NoBackfill
    /\ replays = <<>>
    /\ maps = <<>>
    /\ provider = NoProvider
    /\ retry = NoRetry

\* What the replay engine neither reads nor writes.
outsideEngine == <<tokens, currentPrices, baselineTotalValue, portfolio, tableItems,
                   historyValue, requested, portfolioTransactions, portfolioDaily, snapshot,
                   workflows>>

inputs == <<transactions, upToDate, initialQuotaValue>>

\* Results not yet produced are <<>>, a result r is <<r>>.
None == <<>>
Some(r) == <<r>>

\* ------------------------------------------------------------ filterTransactionsByDate
\* !upToDate : undefined and '' are falsy
NoCutoff(d) == d = UndefinedDate \/ d = EmptyString

\* Variant: the cutoff day itself is left out (tx.date < upToDate).
FilterBeforeDate(txs, d) == SelectSeq(txs, LAMBDA tx : tx.date # d /\ StrLeq(tx.date, d))

\* Variant: the list is read up to its first transaction dated after the cutoff.
RECURSIVE FilterUntilLater(_, _)
FilterUntilLater(txs, d) ==
    IF txs = <<>> \/ ~StrLeq(Head(txs).date, d) THEN <<>>
    ELSE <<Head(txs)>> \o FilterUntilLater(Tail(txs), d)

FilterByDate(txs, d) == SelectSeq(txs, LAMBDA tx : StrLeq(tx.date, d))

filterTransactionsByDate(txs, d) ==
    IF NoCutoff(d) THEN txs ELSE FilterByDate(txs, d)

\* ------------------------------------------------------------ processTransactions
\* The locals of processTransactions as one record.
ReplayState(shares, cash, held) ==
    [totalShares |-> shares, cashBalance |-> cash, holdings |-> held]

\* Variant: every DEPOSIT and WITHDRAW converts at the initial quota value.
QuotaOfSettingsOnly(tx, iq) == iq

\* const quotaValue = tx.quotaValueAtTransaction ?? initialQuotaValue
QuotaOf(tx, iq) == Coalesce(tx.quotaValueAtTransaction, iq)

ApplyDeposit(st, tx, iq) ==
    ReplayState(Add(st.totalShares, Div(tx.usdValue, QuotaOf(tx, iq))),
                Add(st.cashBalance, tx.usdValue),
                st.holdings)

ApplyWithdraw(st, tx, iq) ==
    ReplayState(Sub(st.totalShares, Div(tx.usdValue, QuotaOf(tx, iq))),
                Sub(st.cashBalance, tx.usdValue),
                st.holdings)

\* Variant: a BUY is applied whether or not it carries a symbol.
ApplyBuyUnchecked(st, tx) ==
    ReplayState(st.totalShares,
                Sub(st.cashBalance, tx.usdValue),
                MapSet(st.holdings, tx.tokenSymbol,
                       Add(OrZero(MapGet(st.holdings, tx.tokenSymbol)), tx.amount)))

ApplyBuy(st, tx) ==
    IF Truthy(tx.tokenSymbol)
    THEN ReplayState(st.totalShares,
                     Sub(st.cashBalance, tx.usdValue),
                     MapSet(st.holdings, tx.tokenSymbol,
                            Add(OrZero(MapGet(st.holdings, tx.tokenSymbol)), tx.amount)))
    ELSE st

\* Variant: a SELL cannot take a holding below zero.
ApplySellClamped(st, tx) ==
    IF Truthy(tx.tokenSymbol)
    THEN ReplayState(st.totalShares,
                     Add(st.cashBalance, tx.usdValue),
                     MapSet(st.holdings, tx.tokenSymbol,
                            MathMax(Zero, Sub(OrZero(MapGet(st.holdings, tx.tokenSymbol)),
                                              tx.amount))))
    ELSE st

ApplySell(st, tx) ==
    IF Truthy(tx.tokenSymbol)
    THEN ReplayState(st.totalShares,
                     Add(st.cashBalance, tx.usdValue),
                     MapSet(st.holdings, tx.tokenSymbol,
                            Sub(OrZero(MapGet(st.holdings, tx.tokenSymbol)), tx.amount)))
    ELSE st

\* The body of the for loop: switch (tx.type)
ApplyTransaction(st, tx, iq) ==
    CASE tx.type = "DEPOSIT"  -> ApplyDeposit(st, tx, iq)
      [] tx.type = "WITHDRAW" -> ApplyWithdraw(st, tx, iq)
      [] tx.type = "BUY"      -> ApplyBuy(st, tx)
      [] tx.type = "SELL"     -> ApplySell(st, tx)
      [] OTHER                -> st

\* Variant: the holdings Map is created once and shared by every call.
SharedReplayState == ReplayState(Zero, Zero, holdings)

\* let totalShares = 0; let cashBalance = 0; const holdings = new Map()
InitialReplayState == ReplayState(Zero, Zero, EmptyMap)

\* return { totalShares, quotaValue: initialQuotaValue, cashBalance, holdings }
MakeFundState(shares, iq, cash, held) ==
    [totalShares |-> shares, quotaValue |-> iq, cashBalance |-> cash, holdings |-> held]

\* ------------------------------------------------------------ calculateCostBasis
CostState(cost, held) == [costBasis |-> cost, holdings |-> held]

\* const costBasis = new Map(); const holdings = new Map()
InitialCostState == CostState(EmptyMap, EmptyMap)

CostBuy(st, tx) ==
    CostState(MapSet(st.costBasis, tx.tokenSymbol,
                     Add(OrZero(MapGet(st.costBasis, tx.tokenSymbol)), tx.usdValue)),
              MapSet(st.holdings, tx.tokenSymbol,
                     Add(OrZero(MapGet(st.holdings, tx.tokenSymbol)), tx.amount)))

\* Variant: only a negative running amount is skipped (currentAmount < 0).
SkipsSellNegativeOnly(currentAmount) == Lt(currentAmount, Zero)

\* if (currentAmount <= 0) continue
SkipsSell(currentAmount) == Leq(currentAmount, Zero)

\* Variant: the amount sold is not clamped to the amount held.
AmountSoldUnclamped(amount, currentAmount) == amount

\* const amountSold = Math.min(tx.amount, currentAmount)
AmountSold(amount, currentAmount) == MathMin(amount, currentAmount)

\* Variant: a sale leaves the cost as it was.
CostNotReduced(currentCost, costReduction) == currentCost

\* Math.max(0, currentCost - costReduction)
ReducedCost(currentCost, costReduction) == MathMax(Zero, Sub(currentCost, costReduction))

\* Variant: a SELL reduces the cost by its proceeds instead of the average cost.
CostSellByProceeds(st, tx) ==
    LET currentAmount == OrZero(MapGet(st.holdings, tx.tokenSymbol))
        currentCost   == OrZero(MapGet(st.costBasis, tx.tokenSymbol))
        amountSold    == AmountSold(tx.amount, currentAmount)
    IN  IF SkipsSell(currentAmount) THEN st
        ELSE CostState(MapSet(st.costBasis, tx.tokenSymbol,
                              ReducedCost(currentCost, tx.usdValue)),
                       MapSet(st.holdings, tx.tokenSymbol,
                              Sub(currentAmount, amountSold)))

CostSell(st, tx) ==
    LET currentAmount == OrZero(MapGet(st.holdings, tx.tokenSymbol))
        currentCost   == OrZero(MapGet(st.costBasis, tx.tokenSymbol))
        averageCost   == Div(currentCost, currentAmount)
        amountSold    == AmountSold(tx.amount, currentAmount)
        costReduction == Mul(averageCost, amountSold)
    IN  IF SkipsSell(currentAmount) THEN st
        ELSE CostState(MapSet(st.costBasis, tx.tokenSymbol,
                              ReducedCost(currentCost, costReduction)),
                       MapSet(st.holdings, tx.tokenSymbol,
                              Sub(currentAmount, amountSold)))

\* Variant: a DEPOSIT is tracked like a BUY, under the symbol it carries.
ApplyCostCountingDeposits(st, tx) ==
    IF tx.type \in {"BUY", "DEPOSIT"} THEN CostBuy(st, tx)
    ELSE IF tx.type = "SELL" /\ Truthy(tx.tokenSymbol) THEN CostSell(st, tx)
    ELSE st

\* The body of the for loop of calculateCostBasis
ApplyCost(st, tx) ==
    IF tx.type = "BUY" /\ Truthy(tx.tokenSymbol) THEN CostBuy(st, tx)
    ELSE IF tx.type = "SELL" /\ Truthy(tx.tokenSymbol) THEN CostSell(st, tx)
    ELSE st

\* ------------------------------------------------------------ quota metrics
\* Variant: no guard on totalShares === 0.
calculateQuotaValueUnguarded(portfolioValue, shares, iq) == Div(portfolioValue, shares)

calculateQuotaValue(portfolioValue, shares, iq) ==
    IF shares = Zero THEN iq ELSE Div(portfolioValue, shares)

calculateQuotaPerformance(currentQuotaValue, iq) ==
    Mul(Div(Sub(currentQuotaValue, iq), iq), Num(100))

\* ------------------------------------------------------------ specification
\* The engine is called on a ledger, a cutoff and an initial quota value that some
\* caller holds; the functions are synchronous, so one call runs at a time.
Init ==
    /\ transactions \in Ledgers
    /\ upToDate \in Cutoffs
    /\ initialQuotaValue \in QuotaValues
    /\ pc = "idle"
    /\ filteredTransactions = <<>>
    /\ idx = 0
    /\ totalShares = Zero
    /\ cashBalance = Zero
    /\ holdings = EmptyMap
    /\ costBasis = EmptyMap
    /\ costHoldings = EmptyMap
    /\ fundState = None
    /\ costBasisMap = None
    /\ summary = None
    /\ tokens = <<>>
    /\ currentPrices = EmptyMap
    /\ baselineTotalValue = Zero
    /\ portfolio = None
    /\ tableItems = None
    /\ historyValue = None
    /\ requested = None
    /\ portfolioTransactions = <<>>
    /\ portfolioDaily = <<>>
    /\ snapshot = None
    /\ WorkflowsIdle

\* Variant: the filter removes the later transactions from the array it is
\* called on.
FilteredInPlace(txs, date) == filterTransactionsByDate(txs, date)

\* The array passed in, after filterTransactionsByDate: transactions.filter builds
\* a new array, and without a cutoff the array is returned as it is.
ArrayAfterFilter(txs, date) == txs

\* processTransactions(transactions, upToDate, initialQuotaValue): entry, up to the loop
CallProcessTransactions ==
    /\ pc = "idle"
    /\ pc' = "processTransactions"
    /\ filteredTransactions' = filterTransactionsByDate(transactions, upToDate)
    /\ transactions' = ArrayAfterFilter(transactions, upToDate)
    /\ idx' = 0
    /\ totalShares' = InitialReplayState.totalShares
    /\ cashBalance' = InitialReplayState.cashBalance
    /\ holdings' = InitialReplayState.holdings
    /\ summary' = None
    /\ UNCHANGED <<upToDate, initialQuotaValue, costBasis, costHoldings, fundState,
                   costBasisMap>>
    /\ UNCHANGED outsideEngine

\* one iteration of for (const tx of filteredTransactions)
ProcessTransaction ==
    /\ pc = "processTransactions"
    /\ idx < Len(filteredTransactions)
    /\ LET st == ApplyTransaction(ReplayState(totalShares, cashBalance, holdings),
                                  filteredTransactions[idx + 1], initialQuotaValue)
       IN  /\ totalShares' = st.totalShares
           /\ cashBalance' = st.cashBalance
           /\ holdings' = st.holdings
    /\ idx' = idx + 1
    /\ UNCHANGED <<inputs, pc, filteredTransactions, costBasis, costHoldings,
                   fundState, costBasisMap, summary>>
    /\ UNCHANGED outsideEngine

\* the loop is over: return the FundState
ReturnProcessTransactions ==
    /\ pc = "processTransactions"
    /\ idx = Len(filteredTransactions)
    /\ fundState' = Some(MakeFundState(totalShares, initialQuotaValue, cashBalance, holdings))
    /\ pc' = "idle"
    /\ UNCHANGED <<inputs, filteredTransactions, idx, totalShares, cashBalance, holdings,
                   costBasis, costHoldings, costBasisMap, summary>>
    /\ UNCHANGED outsideEngine

\* calculateCostBasis(transactions, upToDate): entry, up to the loop
CallCalculateCostBasis ==
    /\ pc = "idle"
    /\ pc' = "calculateCostBasis"
    /\ filteredTransactions' = filterTransactionsByDate(transactions, upToDate)
    /\ transactions' = ArrayAfterFilter(transactions, upToDate)
    /\ idx' = 0
    /\ costBasis' = InitialCostState.costBasis
    /\ costHoldings' = InitialCostState.holdings
    /\ summary' = None
    /\ UNCHANGED <<upToDate, initialQuotaValue, totalShares, cashBalance, holdings,
                   fundState, costBasisMap>>
    /\ UNCHANGED outsideEngine

\* one iteration of the loop of calculateCostBasis
CostBasisTransaction ==
    /\ pc = "calculateCostBasis"
    /\ idx < Len(filteredTransactions)
    /\ LET st == ApplyCost(CostState(costBasis, costHoldings), filteredTransactions[idx + 1])
       IN  /\ costBasis' = st.costBasis
           /\ costHoldings' = st.holdings
    /\ idx' = idx + 1
    /\ UNCHANGED <<inputs, pc, filteredTransactions, totalShares, cashBalance, holdings,
                   fundState, costBasisMap, summary>>
    /\ UNCHANGED outsideEngine

\* the loop is over: return costBasis
ReturnCalculateCostBasis ==
    /\ pc = "calculateCostBasis"
    /\ idx = Len(filteredTransactions)
    /\ costBasisMap' = Some(costBasis)
    /\ pc' = "idle"
    /\ UNCHANGED <<inputs, filteredTransactions, idx, totalShares, cashBalance, holdings,
                   costBasis, costHoldings, fundState, summary>>
    /\ UNCHANGED outsideEngine

\* buildPortfolioFromPrices: the quota metrics of the summary, from the total of the
\* valued items (an input here) and the FundState of the last replay
Summarize ==
    /\ pc = "idle"
    /\ fundState # None
    /\ \E totalValue \in TotalValues :
          LET shares == fundState[1].totalShares
              quotaValue == calculateQuotaValue(totalValue, shares, initialQuotaValue)
          IN  summary' = Some([totalValue |-> totalValue,
                               totalShares |-> shares,
                               quotaValue |-> quotaValue,
                               initialQuotaValue |-> initialQuotaValue,
                               quotaPerformance |->
                                   calculateQuotaPerformance(quotaValue, initialQuotaValue)])
    /\ UNCHANGED <<inputs, pc, filteredTransactions, idx, totalShares, cashBalance,
                   holdings, costBasis, costHoldings, fundState, costBasisMap>>
    /\ UNCHANGED outsideEngine

Next ==
    \/ CallProcessTransactions
    \/ ProcessTransaction
    \/ ReturnProcessTransactions
    \/ CallCalculateCostBasis
    \/ CostBasisTransaction
    \/ ReturnCalculateCostBasis
    \/ Summarize

Spec == Init /\ [][Next]_vars

\* ============================================================ properties
\* What the claims are stated over: the ledger read as calendar days, and sums
\* written out over it, independently of the loops above.

\* The day a well-formed date string denotes.
DayNumber(date) == 10 * date[1] + date[2]

IsDate(d) == d # UndefinedDate /\ Len(d) = 2

\* The transactions dated on or before the cutoff, all of them without a cutoff.
IncludedTransactions ==
    IF IsDate(upToDate)
    THEN SelectSeq(transactions, LAMBDA tx : DayNumber(tx.date) <= DayNumber(upToDate))
    ELSE transactions

RECURSIVE SumNums(_)
SumNums(ns) == IF ns = <<>> THEN Zero ELSE Add(Head(ns), SumNums(Tail(ns)))

Prefix(txs, n) == SubSeq(txs, 1, n)

\* The share price a DEPOSIT or WITHDRAW converts at.
OwnQuota(tx) ==
    IF tx.quotaValueAtTransaction = Undefined THEN initialQuotaValue
    ELSE tx.quotaValueAtTransaction

SharesOfType(txs, type) ==
    SumNums([i \in 1 .. Len(txs) |->
                IF txs[i].type = type THEN Div(txs[i].usdValue, OwnQuota(txs[i])) ELSE Zero])

HasSymbol(tx) == tx.tokenSymbol \notin {UndefinedSymbol, ""}

\* What a transaction adds to the cash: + DEPOSIT, - WITHDRAW, - BUY and + SELL
\* when the trade carries a symbol.
CashEffect(tx) ==
    CASE tx.type = "DEPOSIT"                   -> tx.usdValue
      [] tx.type = "WITHDRAW"                  -> Neg(tx.usdValue)
      [] tx.type = "BUY" /\ HasSymbol(tx)      -> Neg(tx.usdValue)
      [] tx.type = "SELL" /\ HasSymbol(tx)     -> tx.usdValue
      [] OTHER                                 -> Zero

ExpectedCash(txs) == SumNums([i \in 1 .. Len(txs) |-> CashEffect(txs[i])])

\* Amount bought minus amount sold of a symbol.
HoldingEffect(tx, symbol) ==
    IF tx.tokenSymbol # symbol THEN Zero
    ELSE IF tx.type = "BUY" THEN tx.amount
    ELSE IF tx.type = "SELL" THEN Neg(tx.amount)
    ELSE Zero

ExpectedHolding(txs, symbol) ==
    SumNums([i \in 1 .. Len(txs) |-> HoldingEffect(txs[i], symbol)])

TradedSymbols(txs) ==
    {txs[i].tokenSymbol : i \in {j \in 1 .. Len(txs) : txs[j].type \in {"BUY", "SELL"}
                                                       /\ HasSymbol(txs[j])}}

\* C1: the totalShares processTransactions returns is the sum over the included
\* DEPOSITs of usdValue / q minus the sum over the included WITHDRAWs of
\* usdValue / q, q being the transaction's own quota value when present and
\* initialQuotaValue otherwise; nothing clamps it at zero.
C1_TotalShares ==
    fundState # None =>
        fundState[1].totalShares =
            Sub(SharesOfType(IncludedTransactions, "DEPOSIT"),
                SharesOfType(IncludedTransactions, "WITHDRAW"))

\* A replay that returned a negative number of shares, from a DEPOSIT converted at
\* initialQuotaValue and a WITHDRAW converted at its own quota value.
C1_Witness ==
    /\ fundState # None
    /\ fundState[1].totalShares = <<-1, 2>>
    /\ \E i \in 1 .. Len(IncludedTransactions) :
          IncludedTransactions[i].type = "DEPOSIT"

\* C2: after replaying any prefix of the ledger, cashBalance is deposits minus
\* withdrawals minus the BUYs that carry a symbol plus the SELLs that carry one.
C2_CashBalance ==
    /\ pc = "processTransactions" =>
          cashBalance = ExpectedCash(Prefix(IncludedTransactions, idx))
    /\ fundState # None =>
          fundState[1].cashBalance = ExpectedCash(IncludedTransactions)

\* DEPOSIT 3, then BUY 2 A for 4: cash 3 after the first step (checked by the
\* formula on the way), -1 and two A after the second.
C2_Witness ==
    /\ pc = "processTransactions"
    /\ idx = 2
    /\ filteredTransactions[1].type = "DEPOSIT"
    /\ filteredTransactions[2].type = "BUY"
    /\ cashBalance = Num(-1)
    /\ MapGet(holdings, "A") = Num(2)

\* C3: after replaying any prefix, the holding of a symbol is the amount bought
\* minus the amount sold, not clamped at zero; the map has a key exactly for the
\* symbols traded.
C3_Holdings ==
    /\ pc = "processTransactions" =>
          /\ DOMAIN holdings = TradedSymbols(Prefix(IncludedTransactions, idx))
          /\ \A s \in DOMAIN holdings :
                holdings[s] = ExpectedHolding(Prefix(IncludedTransactions, idx), s)
    /\ fundState # None =>
          /\ DOMAIN fundState[1].holdings = TradedSymbols(IncludedTransactions)
          /\ \A s \in DOMAIN fundState[1].holdings :
                fundState[1].holdings[s] = ExpectedHolding(IncludedTransactions, s)

\* A returned FundState whose holding of A is negative: more was sold than held.
C3_Witness ==
    /\ fundState # None
    /\ "A" \in DOMAIN fundState[1].holdings
    /\ Lt(fundState[1].holdings["A"], Zero)

\* C4: with a cutoff both functions fold exactly the transactions dated on or
\* before it, in ledger order, and without one the whole ledger; the loop runs
\* over all of them before the function returns.
C4_CutoffInclusive ==
    /\ pc # "idle" => filteredTransactions = IncludedTransactions
    /\ pc # "idle" => idx <= Len(IncludedTransactions)
    /\ (pc = "idle" /\ (fundState # None \/ costBasisMap # None)) =>
          (idx = Len(IncludedTransactions) /\ filteredTransactions = IncludedTransactions)

\* A call under a cutoff that keeps a transaction dated at the cutoff and drops a
\* later one.
C4_Witness ==
    /\ pc = "calculateCostBasis"
    /\ upToDate = D02
    /\ idx = Len(filteredTransactions)
    /\ Len(filteredTransactions) = 1
    /\ filteredTransactions[1].date = D02
    /\ \E i \in 1 .. Len(transactions) : transactions[i].date = D10

\* The transaction the loop takes next, and what the cost tracker holds for a symbol.
CurrentTx == filteredTransactions[idx + 1]

TrackedAmount(symbol) == IF symbol \in DOMAIN costHoldings THEN costHoldings[symbol] ELSE Zero

TrackedCost(symbol) == IF symbol \in DOMAIN costBasis THEN costBasis[symbol] ELSE Zero

Smaller(a, b) == IF Lt(a, b) THEN a ELSE b

\* The step about to be taken is the cost tracker's iteration over a SELL of a symbol.
CostSellStep ==
    /\ pc = "calculateCostBasis"
    /\ idx < Len(filteredTransactions)
    /\ CurrentTx.type = "SELL"
    /\ HasSymbol(CurrentTx)

\* The cost and the running amount after selling by weighted average cost.
AverageCostSale(symbol, amount) ==
    LET sold == Smaller(amount, TrackedAmount(symbol))
    IN  /\ MapGet(costBasis', symbol) =
              Sub(TrackedCost(symbol),
                  Mul(Div(TrackedCost(symbol), TrackedAmount(symbol)), sold))
        /\ MapGet(costHoldings', symbol) = Sub(TrackedAmount(symbol), sold)
        /\ \A s \in DOMAIN costBasis \ {symbol} : MapGet(costBasis', s) = costBasis[s]

\* C5 as stated: every SELL of a symbol whose running amount is > 0 reduces the
\* cost by (cost / running amount) * min(tx.amount, running amount) and the running
\* amount by min(tx.amount, running amount).
C5_SellReducesByAverage ==
    [][(CostSellStep /\ Lt(Zero, TrackedAmount(CurrentTx.tokenSymbol)))
          => AverageCostSale(CurrentTx.tokenSymbol, CurrentTx.amount)]_vars

\* C5 amended: the same, for a SELL of a symbol whose tracked cost is >= 0 (a
\* negative cost, left by a BUY of negative usdValue, is clamped to 0 by Math.max).
C5_SellReducesNonNegativeCost ==
    [][(/\ CostSellStep
        /\ Lt(Zero, TrackedAmount(CurrentTx.tokenSymbol))
        /\ Leq(Zero, TrackedCost(CurrentTx.tokenSymbol)))
          => AverageCostSale(CurrentTx.tokenSymbol, CurrentTx.amount)]_vars

\* BUY 2 A for 4, then SELL 1 A (for 3): cost 2 and amount 1 are left.
C5_Witness ==
    /\ pc = "calculateCostBasis"
    /\ idx = 2
    /\ filteredTransactions[1].type = "BUY"
    /\ filteredTransactions[2].type = "SELL"
    /\ filteredTransactions[2].usdValue = Num(3)
    /\ MapGet(costBasis, "A") = Num(2)
    /\ MapGet(costHoldings, "A") = Num(1)

NonNegative(txs) ==
    \A i \in 1 .. Len(txs) : Leq(Zero, txs[i].amount) /\ Leq(Zero, txs[i].usdValue)

\* C6: when no included transaction has a negative amount or usdValue, every cost
\* of the cost map and every running amount of the tracker is >= 0, at every point
\* of the loop and in the map returned.
C6_CostBasisFloor ==
    NonNegative(IncludedTransactions) =>
        /\ \A s \in DOMAIN costBasis : Leq(Zero, costBasis[s])
        /\ \A s \in DOMAIN costHoldings : Leq(Zero, costHoldings[s])
        /\ costBasisMap # None => \A s \in DOMAIN costBasisMap[1] : Leq(Zero, costBasisMap[1][s])

\* BUY 2 A, then SELL 5 A: the sale is clamped to the 2 held, cost and amount are 0.
C6_Witness ==
    /\ NonNegative(IncludedTransactions)
    /\ pc = "calculateCostBasis"
    /\ idx = 2
    /\ filteredTransactions[1].type = "BUY"
    /\ filteredTransactions[2].type = "SELL"
    /\ filteredTransactions[2].amount = Num(5)
    /\ MapGet(costBasis, "A") = Zero
    /\ MapGet(costHoldings, "A") = Zero

\* C7: a SELL of a symbol whose running amount is <= 0 changes neither map and
\* only moves the loop on; the function returns the cost map only once the loop
\* has taken every included transaction.
C7_SellOfNothingHeld ==
    [][/\ (CostSellStep /\ Leq(TrackedAmount(CurrentTx.tokenSymbol), Zero))
            => (/\ costBasis' = costBasis
                /\ costHoldings' = costHoldings
                /\ pc' = pc
                /\ idx' = idx + 1)
       /\ (pc = "calculateCostBasis" /\ pc' = "idle")
            => (/\ idx = Len(IncludedTransactions)
                /\ costBasisMap' = Some(costBasis))]_vars

\* SELL 5 A with nothing held, then BUY 2 A for 4: the BUY after the skipped SELL
\* is in the cost map.
C7_Witness ==
    /\ pc = "calculateCostBasis"
    /\ idx = 2
    /\ filteredTransactions[1].type = "SELL"
    /\ filteredTransactions[1].tokenSymbol = "A"
    /\ filteredTransactions[2].type = "BUY"
    /\ MapGet(costBasis, "A") = Num(4)
    /\ MapGet(costHoldings, "A") = Num(2)

\* C8: an invocation that returns after an earlier invocation of the same function
\* on the same ledger, cutoff and initial quota value returns what that one did,
\* whatever ran in between.
C8_Deterministic ==
    [][/\ (pc = "processTransactions" /\ pc' = "idle" /\ fundState # None)
            => fundState' = fundState
       /\ (pc = "calculateCostBasis" /\ pc' = "idle" /\ costBasisMap # None)
            => costBasisMap' = costBasisMap]_vars

\* A second replay about to return, after a cost basis pass ran, with two symbols
\* held by the first.
C8_Witness ==
    /\ pc = "processTransactions"
    /\ idx = Len(filteredTransactions)
    /\ fundState # None
    /\ costBasisMap # None
    /\ DOMAIN fundState[1].holdings = {"A", "B"}

\* C9: the quota value of a summary is initialQuotaValue when totalShares is 0,
\* whatever the total value, and total value / totalShares otherwise.
C9_QuotaValue ==
    summary # None =>
        /\ summary[1].totalShares = fundState[1].totalShares
        /\ summary[1].totalShares = Zero => summary[1].quotaValue = initialQuotaValue
        /\ summary[1].totalShares # Zero =>
              summary[1].quotaValue = Div(summary[1].totalValue, summary[1].totalShares)

\* A summary of a fund that holds tokens worth 3 and has no shares.
C9_Witness ==
    /\ summary # None
    /\ summary[1].totalShares = Zero
    /\ summary[1].totalValue = Num(3)
    /\ summary[1].quotaValue = Num(2)
    /\ fundState[1].holdings # EmptyMap

\* C10: the quota performance of a summary is
\* (quotaValue - initialQuotaValue) / initialQuotaValue * 100, and it is exactly 0
\* when quotaValue equals initialQuotaValue, so also when the fund has no shares.
C10_QuotaPerformance ==
    summary # None =>
        /\ summary[1].quotaPerformance =
              Mul(Div(Sub(summary[1].quotaValue, initialQuotaValue), initialQuotaValue),
                  Num(100))
        /\ summary[1].quotaValue = initialQuotaValue => summary[1].quotaPerformance = Zero
        /\ summary[1].totalShares = Zero => summary[1].quotaPerformance = Zero

\* ============================================================ valuation
\* The valuation turns a FundState, the token registry and a price map into the
\* portfolio items and the summary. A PriceData is reduced to its price: the other
\* fields (change24h, marketCap, fdv) are copied and never computed with.

\* TokenMetadata; an unset cmcSymbol or specialCalculation is UndefinedSymbol
Token(id, symbol, category, api, cmc, special) ==
    [id |-> id, symbol |-> symbol, category |-> category, preferredAPI |-> api,
     cmcSymbol |-> cmc, specialCalculation |-> special]

STETH == Token("staked-ether", "STETH", "Eth", "coingecko", "STETH", "ETH_AMOUNT")
ETH == Token("ethereum", "ETH", "Eth", "coingecko", "ETH", "REGULAR")
BITB == Token("bitb", "BITB", "Btc", "coinmarketcap", "BITB", "BTC_AMOUNT")
ACOIN == Token("a-coin", "A", "AI", "coinmarketcap", UndefinedSymbol, UndefinedSymbol)

\* every subsequence of s, the order of s kept
RECURSIVE SubSeqs(_)
SubSeqs(s) ==
    IF s = <<>> THEN {<<>>}
    ELSE LET rest == SubSeqs(Tail(s))
         IN  rest \cup {<<Head(s)>> \o r : r \in rest}

\* The registries the valuation is run on; their symbols are unique.
Registries == SubSeqs(<<STETH, ETH, BITB, ACOIN>>)

Restrict(m, S) == [k \in S |-> m[k]]

\* The price maps: each pricing id is present with its price or missing; the
\* ETH_AMOUNT token's own id always has a price, one that differs from ethereum's.
AllPrices ==
    [id \in {"ethereum", "bitcoin", "staked-ether", "a-coin"} |->
        CASE id = "ethereum" -> Num(3)
          [] id = "bitcoin" -> Num(5)
          [] id = "staked-ether" -> Num(7)
          [] id = "a-coin" -> Num(2)]

PriceMaps ==
    {Restrict(AllPrices, S \cup {"staked-ether"}) :
        S \in SUBSET {"ethereum", "bitcoin", "a-coin"}}

\* The holdings a replay can end with, per symbol: never traded (no key), bought and
\* sold back (0), bought (2), oversold (-3); ETH and BITB are bought or never traded.
HeldAmounts == {Undefined, Zero, Num(2), Num(-3)}

HoldingMaps ==
    {Restrict(a, {s \in DOMAIN a : a[s] # Undefined}) :
        a \in {b \in [{"STETH", "ETH", "BITB", "A"} -> HeldAmounts] :
                  b["ETH"] \in {Undefined, Num(2)} /\ b["BITB"] \in {Undefined, Num(2)}}}

\* The cost map calculateCostBasis returns with such holdings: a key for every
\* symbol bought, BITB acquired for 0 USD, ETH for 3 and the others for 4.
CostBasisOf(held) ==
    [s \in {k \in DOMAIN held : Lt(Zero, held[k])} |->
        IF s = "BITB" THEN Zero ELSE IF s = "ETH" THEN Num(3) ELSE Num(4)]

BaselineValues == {Zero, Num(4)}

\* currentPrices[id]?.price || 0
getCurrentPrice(id, prices) == OrZero(MapGet(prices, id))

\* Variant: every token is valued at the price of its own id.
calculateCurrentValueOwnId(token, amount, prices) ==
    Mul(amount, getCurrentPrice(token.id, prices))

calculateCurrentValue(token, amount, prices) ==
    CASE token.specialCalculation = "ETH_AMOUNT" ->
             Mul(amount, OrZero(MapGet(prices, "ethereum")))
      [] token.specialCalculation = "BTC_AMOUNT" ->
             Mul(amount, OrZero(MapGet(prices, "bitcoin")))
      [] OTHER ->
             Mul(amount, OrZero(MapGet(prices, token.id)))

\* Variant: the relative change is computed whatever the baseline.
calculatePerformanceUnguarded(currentValue, cost) ==
    LET performance == Mul(Div(Sub(currentValue, cost), cost), Num(100))
    IN  [currentValue |-> currentValue, baselineValue |-> cost,
         performance |-> performance, isPositive |-> Leq(Zero, performance)]

calculatePerformance(currentValue, cost) ==
    IF cost = Zero
    THEN [currentValue |-> currentValue, baselineValue |-> cost,
          performance |-> Zero, isPositive |-> TRUE]
    ELSE LET performance == Mul(Div(Sub(currentValue, cost), cost), Num(100))
         IN  [currentValue |-> currentValue, baselineValue |-> cost,
              performance |-> performance, isPositive |-> Leq(Zero, performance)]

calculateTotalPerformance(currentValue, baselineValue) ==
    calculatePerformance(currentValue, baselineValue)

createPortfolioItem(token, amount, cost, prices) ==
    LET currentValue == calculateCurrentValue(token, amount, prices)
    IN  [token |-> token,
         amount |-> amount,
         currentPrice |-> getCurrentPrice(token.id, prices),
         currentValue |-> currentValue,
         percentage |-> Zero,
         performance |-> calculatePerformance(currentValue, cost).performance,
         costBasis |-> cost]

\* items.reduce((sum, item) => sum + item.currentValue, 0)
TotalCurrentValue(items) == SumNums([i \in 1 .. Len(items) |-> items[i].currentValue])

\* Variant: each percentage is taken of the largest item, not of the total.
calculatePercentagesOfLargest(items) ==
    LET largest == CHOOSE v \in {items[i].currentValue : i \in 1 .. Len(items)} \cup {Zero} :
                       \A i \in 1 .. Len(items) : Leq(items[i].currentValue, v)
    IN  [i \in 1 .. Len(items) |->
            [items[i] EXCEPT !.percentage =
                IF Lt(Zero, largest)
                THEN Mul(Div(items[i].currentValue, largest), Num(100))
                ELSE Zero]]

calculatePercentages(items) ==
    LET totalValue == TotalCurrentValue(items)
    IN  [i \in 1 .. Len(items) |->
            [items[i] EXCEPT !.percentage =
                IF Lt(Zero, totalValue)
                THEN Mul(Div(items[i].currentValue, totalValue), Num(100))
                ELSE Zero]]

\* the categories in the order of their first item, each with its items
RECURSIVE CategoriesOf(_)
CategoriesOf(items) ==
    IF items = <<>> THEN <<>>
    ELSE LET first == CategoriesOf(SubSeq(items, 1, Len(items) - 1))
             category == items[Len(items)].token.category
         IN  IF \E i \in 1 .. Len(first) : first[i] = category
             THEN first
             ELSE Append(first, category)

\* Variant: every item opens a group of its own.
aggregateByCategoryPerItem(items) ==
    LET totalValue == TotalCurrentValue(items)
    IN  [c \in 1 .. Len(items) |->
            [category |-> items[c].token.category,
             totalValue |-> items[c].currentValue,
             items |-> <<items[c]>>,
             percentage |-> IF Lt(Zero, totalValue)
                            THEN Mul(Div(items[c].currentValue, totalValue), Num(100))
                            ELSE Zero]]

aggregateByCategory(items) ==
    LET totalValue == TotalCurrentValue(items)
        names == CategoriesOf(items)
    IN  [c \in 1 .. Len(names) |->
            LET members == SelectSeq(items, LAMBDA item : item.token.category = names[c])
                value == TotalCurrentValue(members)
            IN  [category |-> names[c],
                 totalValue |-> value,
                 items |-> members,
                 percentage |-> IF Lt(Zero, totalValue)
                                THEN Mul(Div(value, totalValue), Num(100))
                                ELSE Zero]]

\* holdings.get(token.symbol) || 0
getTokenAmount(token, held) == OrZero(MapGet(held, token.symbol))

\* Variant: a token is listed when its holding is not 0.
IsListedNonZero(token, held) == getTokenAmount(token, held) # Zero

\* tokens.filter(token => getTokenAmount(token, fundState.holdings) > 0)
IsListed(token, held) == Lt(Zero, getTokenAmount(token, held))

buildPortfolioFromPrices(registry, state, costs, prices, baseline, iq) ==
    LET listed == SelectSeq(registry, LAMBDA token : IsListed(token, state.holdings))
        items == [i \in 1 .. Len(listed) |->
                     createPortfolioItem(listed[i],
                                         getTokenAmount(listed[i], state.holdings),
                                         OrZero(MapGet(costs, listed[i].symbol)),
                                         prices)]
        itemsWithPercentages == calculatePercentages(items)
        totalValue == TotalCurrentValue(itemsWithPercentages)
        quotaValue == calculateQuotaValue(totalValue, state.totalShares, iq)
    IN  [itemsWithPercentages |-> itemsWithPercentages,
         portfolioSummary |->
             [totalValue |-> totalValue,
              baselineValue |-> baseline,
              totalPerformance |-> calculateTotalPerformance(totalValue, baseline).performance,
              categories |-> aggregateByCategory(itemsWithPercentages),
              quotaValue |-> quotaValue,
              initialQuotaValue |-> iq,
              totalShares |-> state.totalShares,
              quotaPerformance |-> calculateQuotaPerformance(quotaValue, iq)]]

\* Variant: the merged row keeps the value and the cost of its template item.
MergedRowOfFirst(members, symbol, special) ==
    [token |-> [members[1].token EXCEPT !.symbol = symbol,
                                        !.specialCalculation = special],
     amount |-> SumNums([i \in 1 .. Len(members) |-> members[i].amount]),
     currentPrice |-> members[1].currentPrice,
     currentValue |-> members[1].currentValue,
     percentage |-> Zero,
     performance |-> members[1].performance,
     costBasis |-> members[1].costBasis]

\* the merged row of a category: the first item is the template
MergedRow(members, symbol, special) ==
    LET value == TotalCurrentValue(members)
        cost == SumNums([i \in 1 .. Len(members) |-> members[i].costBasis])
    IN  [token |-> [members[1].token EXCEPT !.symbol = symbol,
                                            !.specialCalculation = special],
         amount |-> SumNums([i \in 1 .. Len(members) |-> members[i].amount]),
         currentPrice |-> members[1].currentPrice,
         currentValue |-> value,
         percentage |-> Zero,
         performance |-> calculatePerformance(value, cost).performance,
         costBasis |-> cost]

\* Variant: a category is merged only when it has several items, and its lone
\* item is otherwise dropped.
MergedRowsOfSeveral(members, symbol, special) ==
    IF Len(members) > 1 THEN <<MergedRow(members, symbol, special)>> ELSE <<>>

MergedRows(members, symbol, special) ==
    IF Len(members) > 0 THEN <<MergedRow(members, symbol, special)>> ELSE <<>>

aggregateBitcoinEthereumCategories(items) ==
    LET btcItems == SelectSeq(items, LAMBDA item : item.token.category = "Btc")
        ethItems == SelectSeq(items, LAMBDA item : item.token.category = "Eth")
        otherItems == SelectSeq(items, LAMBDA item : item.token.category \notin {"Btc", "Eth"})
    IN  calculatePercentages(MergedRows(btcItems, "BTC", "BTC_AMOUNT")
                             \o MergedRows(ethItems, "ETH", "ETH_AMOUNT")
                             \o otherItems)

\* tokens.find(t => t.symbol === symbol): <<the first such token>>, <<>> if none
FindToken(registry, symbol) ==
    LET found == SelectSeq(registry, LAMBDA t : t.symbol = symbol)
    IN  IF found = <<>> THEN None ELSE Some(found[1])

\* the sum of the values of a map
RECURSIVE SumMap(_)
SumMap(m) ==
    IF DOMAIN m = {} THEN Zero
    ELSE LET k == CHOOSE key \in DOMAIN m : TRUE
         IN  Add(m[k], SumMap(Restrict(m, DOMAIN m \ {k})))

\* what one entry of holdings adds to totalValue in calculatePortfolioValue
HoldingValue(registry, symbol, amount, prices) ==
    LET token == FindToken(registry, symbol)
    IN  IF token = None THEN Zero
        ELSE CASE token[1].specialCalculation = "ETH_AMOUNT" ->
                      Mul(amount, OrZero(MapGet(prices, "ethereum")))
               [] token[1].specialCalculation = "BTC_AMOUNT" ->
                      Mul(amount, OrZero(MapGet(prices, "bitcoin")))
               [] OTHER ->
                      Mul(amount, OrZero(MapGet(prices, token[1].id)))

\* The entries are added in the order of the Map; sums of finite numbers are exact
\* here, so the order does not show.
calculatePortfolioValue(state, prices, registry) ==
    Add(state.cashBalance,
        SumMap([symbol \in DOMAIN state.holdings |->
                   HoldingValue(registry, symbol, state.holdings[symbol], prices)]))

\* The valuation runs on the FundState and the cost map of a finished replay.
ValuationInit ==
    /\ transactions = <<>>
    /\ upToDate = UndefinedDate
    /\ initialQuotaValue = Num(2)
    /\ pc = "idle"
    /\ filteredTransactions = <<>>
    /\ idx = 0
    /\ totalShares = Zero
    /\ cashBalance = Zero
    /\ holdings = EmptyMap
    /\ costBasis = EmptyMap
    /\ costHoldings = EmptyMap
    /\ \E held \in HoldingMaps :
          /\ fundState = Some(MakeFundState(Num(3), initialQuotaValue, Num(5), held))
          /\ costBasisMap = Some(CostBasisOf(held))
    /\ summary = None
    /\ tokens \in Registries
    /\ currentPrices \in PriceMaps
    /\ baselineTotalValue \in BaselineValues
    /\ portfolio = None
    /\ tableItems = None
    /\ historyValue = None
    /\ requested = None
    /\ portfolioTransactions = <<>>
    /\ portfolioDaily = <<>>
    /\ snapshot = None
    /\ WorkflowsIdle

valuationResults == <<portfolio, tableItems, historyValue>>

\* usePortfolio: buildPortfolioFromPrices(prices)
BuildPortfolio ==
    /\ portfolio' = Some(buildPortfolioFromPrices(tokens, fundState[1], costBasisMap[1],
                                                  currentPrices, baselineTotalValue,
                                                  initialQuotaValue))
    /\ tableItems' = None
    /\ UNCHANGED <<inputs, pc, filteredTransactions, idx, totalShares, cashBalance,
                   holdings, costBasis, costHoldings, fundState, costBasisMap, summary,
                   tokens, currentPrices, baselineTotalValue, historyValue, requested,
                   portfolioTransactions, portfolioDaily, snapshot, workflows>>

\* the table: aggregateBitcoinEthereumCategories(portfolioItems)
AggregateForTable ==
    /\ portfolio # None
    /\ tableItems' = Some(aggregateBitcoinEthereumCategories(portfolio[1].itemsWithPercentages))
    /\ UNCHANGED <<inputs, pc, filteredTransactions, idx, totalShares, cashBalance,
                   holdings, costBasis, costHoldings, fundState, costBasisMap, summary,
                   tokens, currentPrices, baselineTotalValue, portfolio, historyValue,
                   requested, portfolioTransactions, portfolioDaily, snapshot, workflows>>

\* the history chart: calculatePortfolioValue(fundState, prices, tokens)
CalculatePortfolioValue ==
    /\ historyValue' = Some(calculatePortfolioValue(fundState[1], currentPrices, tokens))
    /\ UNCHANGED <<inputs, pc, filteredTransactions, idx, totalShares, cashBalance,
                   holdings, costBasis, costHoldings, fundState, costBasisMap, summary,
                   tokens, currentPrices, baselineTotalValue, portfolio, tableItems,
                   requested, portfolioTransactions, portfolioDaily, snapshot, workflows>>

ValuationNext ==
    \/ BuildPortfolio
    \/ AggregateForTable
    \/ CalculatePortfolioValue

ValuationSpec == ValuationInit /\ [][ValuationNext]_vars

\* ------------------------------------------------------------ C11
\* the key of the price map a token is valued with
PricingKey(token) ==
    IF token.specialCalculation = "ETH_AMOUNT" THEN "ethereum"
    ELSE IF token.specialCalculation = "BTC_AMOUNT" THEN "bitcoin"
    ELSE token.id

PortfolioItems == portfolio[1].itemsWithPercentages

\* C11: every item is valued as amount * price of 'ethereum' if its token is
\* ETH_AMOUNT, amount * price of 'bitcoin' if BTC_AMOUNT, and amount * price of the
\* token's own id otherwise, whatever price the own id of a special token has; an
\* item whose price entry is missing has value 0.
C11_CurrentValue ==
    portfolio # None =>
        \A i \in 1 .. Len(PortfolioItems) :
            LET item == PortfolioItems[i]
                key == PricingKey(item.token)
            IN  item.currentValue =
                    IF key \in DOMAIN currentPrices
                    THEN Mul(item.amount, currentPrices[key])
                    ELSE Zero

\* STETH (ETH_AMOUNT, holding 2, own id priced 7) is valued 2 * 3 = 6 while the
\* BTC_AMOUNT item, whose 'bitcoin' entry is missing, is valued 0.
C11_Witness ==
    /\ portfolio # None
    /\ "bitcoin" \notin DOMAIN currentPrices
    /\ \E i, j \in 1 .. Len(PortfolioItems) :
          /\ PortfolioItems[i].token = STETH
          /\ PortfolioItems[i].currentValue = Num(6)
          /\ currentPrices["staked-ether"] = Num(7)
          /\ PortfolioItems[j].token = BITB
          /\ PortfolioItems[j].currentValue = Zero

\* ------------------------------------------------------------ C12
Percentages(items) == [i \in 1 .. Len(items) |-> items[i].percentage]

\* C12: when the items are not empty and their total currentValue is > 0, each
\* percentage is currentValue / total * 100 and the percentages sum to 100; when the
\* total is 0, every percentage is 0.
C12_PercentagesSum ==
    portfolio # None =>
        LET total == TotalCurrentValue(PortfolioItems)
        IN  /\ (PortfolioItems # <<>> /\ Lt(Zero, total)) =>
                  /\ SumNums(Percentages(PortfolioItems)) = Num(100)
                  /\ \A i \in 1 .. Len(PortfolioItems) :
                        PortfolioItems[i].percentage =
                            Mul(Div(PortfolioItems[i].currentValue, total), Num(100))
            /\ total = Zero =>
                  \A i \in 1 .. Len(PortfolioItems) : PortfolioItems[i].percentage = Zero

\* three items of different positive values, none of them 100 percent
C12_Witness ==
    /\ portfolio # None
    /\ Len(PortfolioItems) = 3
    /\ \A i \in 1 .. 3 :
          /\ Lt(Zero, PortfolioItems[i].percentage)
          /\ Lt(PortfolioItems[i].percentage, Num(100))
    /\ PortfolioItems[1].percentage # PortfolioItems[2].percentage

\* ------------------------------------------------------------ C13
ItemsOfCategory(items, category) ==
    SelectSeq(items, LAMBDA item : item.token.category = category)

\* C13: the table has one Btc row exactly when the items have a Btc item, and its
\* currentValue is the sum of theirs; likewise for Eth; and the total currentValue of
\* the table equals the total of the items.
C13_AggregationPreservesValue ==
    tableItems # None =>
        /\ \A category \in {"Btc", "Eth"} :
              LET members == ItemsOfCategory(PortfolioItems, category)
                  rows == ItemsOfCategory(tableItems[1], category)
              IN  IF members = <<>> THEN rows = <<>>
                  ELSE /\ Len(rows) = 1
                       /\ rows[1].currentValue = TotalCurrentValue(members)
        /\ TotalCurrentValue(tableItems[1]) = TotalCurrentValue(PortfolioItems)

\* the Eth row merges STETH (2 * 3) and ETH (2 * 3) next to a Btc row and another row
C13_Witness ==
    /\ tableItems # None
    /\ Len(PortfolioItems) = 4
    /\ Len(tableItems[1]) = 3
    /\ tableItems[1][2].token.symbol = "ETH"
    /\ tableItems[1][2].currentValue = Num(12)
    /\ tableItems[1][1].currentValue = Num(10)

\* ------------------------------------------------------------ C16
\* the items of the portfolio built for the registry entry at position j
ItemsOfToken(j) == SelectSeq(PortfolioItems, LAMBDA item : item.token = tokens[j])

HeldNonZero(token) ==
    LET amount == MapGet(fundState[1].holdings, token.symbol)
    IN  amount # Undefined /\ amount # Zero

\* C16: the portfolio has exactly one item for every registry token whose holding is
\* not zero, positive or negative, and none for a token whose holding is zero or
\* absent.
C16_ItemPerNonZeroHolding ==
    portfolio # None =>
        \A j \in 1 .. Len(tokens) :
            Len(ItemsOfToken(j)) = IF HeldNonZero(tokens[j]) THEN 1 ELSE 0

\* ------------------------------------------------------------ C17
\* C17: the total calculatePortfolioValue returns is the cash balance plus the total
\* of the items' currentValue that the summary carries.
C17_CashInclusiveTotal ==
    (portfolio # None /\ historyValue # None) =>
        historyValue[1] = Add(fundState[1].cashBalance,
                              portfolio[1].portfolioSummary.totalValue)

\* ============================================================ replay, continued
\* ------------------------------------------------------------ C14
\* C14: no division of the replay or of the summary has a zero divisor: the quota
\* value a DEPOSIT or WITHDRAW about to be applied divides by is not 0, and the
\* initial quota value the quota performance of a summary was divided by is not 0.
C14_NoDivisionByZero ==
    /\ (/\ pc = "processTransactions"
        /\ idx < Len(filteredTransactions)
        /\ CurrentTx.type \in {"DEPOSIT", "WITHDRAW"})
           => QuotaOf(CurrentTx, initialQuotaValue) # Zero
    /\ summary # None => summary[1].initialQuotaValue # Zero

\* ------------------------------------------------------------ C15
\* Ledgers with malformed trades: a BUY whose symbol is undefined and a SELL whose
\* symbol is '', among well-formed transactions.
MalformedTransactions ==
    { Tx("DEPOSIT", D02, UndefinedSymbol, Num(3), Undefined, Num(3)),
      Tx("BUY",     D02, "A",             Num(2), Undefined, Num(4)),
      Tx("BUY",     D02, UndefinedSymbol, Num(1), Undefined, Num(1)),
      Tx("SELL",    D10, "",              Num(1), Undefined, Num(3)),
      Tx("SELL",    D10, "A",             Num(1), Undefined, Num(3)) }

MalformedLedgers == SeqsUpTo(MalformedTransactions, MaxLen)

MalformedInit ==
    /\ transactions \in MalformedLedgers
    /\ upToDate \in Cutoffs
    /\ initialQuotaValue = Num(2)
    /\ pc = "idle"
    /\ filteredTransactions = <<>>
    /\ idx = 0
    /\ totalShares = Zero
    /\ cashBalance = Zero
    /\ holdings = EmptyMap
    /\ costBasis = EmptyMap
    /\ costHoldings = EmptyMap
    /\ fundState = None
    /\ costBasisMap = None
    /\ summary = None
    /\ tokens = <<>>
    /\ currentPrices = EmptyMap
    /\ baselineTotalValue = Zero
    /\ portfolio = None
    /\ tableItems = None
    /\ historyValue = None
    /\ requested = None
    /\ portfolioTransactions = <<>>
    /\ portfolioDaily = <<>>
    /\ snapshot = None
    /\ WorkflowsIdle

\* the engine on ledgers with malformed trades
MalformedSpec == MalformedInit /\ [][Next]_vars

\* the whole loop of processTransactions
RECURSIVE ReplayAll(_, _, _)
ReplayAll(st, txs, iq) ==
    IF txs = <<>> THEN st
    ELSE ReplayAll(ApplyTransaction(st, Head(txs), iq), Tail(txs), iq)

\* the whole loop of calculateCostBasis
RECURSIVE CostAll(_, _)
CostAll(st, txs) ==
    IF txs = <<>> THEN st ELSE CostAll(ApplyCost(st, Head(txs)), Tail(txs))

\* what processTransactions returns for the ledger txs
FundStateOf(txs, iq) ==
    LET st == ReplayAll(InitialReplayState, txs, iq)
    IN  MakeFundState(st.totalShares, iq, st.cashBalance, st.holdings)

\* what calculateCostBasis returns for the ledger txs
CostBasisOfLedger(txs) == CostAll(InitialCostState, txs).costBasis

Symbolless(tx) == tx.type \in {"BUY", "SELL"} /\ ~HasSymbol(tx)

WellFormed(txs) == SelectSeq(txs, LAMBDA tx : ~Symbolless(tx))

\* the locals of both loops are those the well-formed transactions taken so far
\* give: an iteration that takes a BUY or SELL without symbol changes none of them
SymbollessStep ==
    /\ pc = "processTransactions" =>
          ReplayState(totalShares, cashBalance, holdings) =
              ReplayAll(InitialReplayState,
                        WellFormed(Prefix(filteredTransactions, idx)), initialQuotaValue)
    /\ pc = "calculateCostBasis" =>
          CostState(costBasis, costHoldings) =
              CostAll(InitialCostState, WellFormed(Prefix(filteredTransactions, idx)))

\* the results are those of the ledger without its symbol-less trades
SymbollessResult ==
    /\ fundState # None =>
          fundState[1] = FundStateOf(WellFormed(IncludedTransactions), initialQuotaValue)
    /\ costBasisMap # None =>
          costBasisMap[1] = CostBasisOfLedger(WellFormed(IncludedTransactions))

\* C15: a BUY or SELL without a token symbol leaves totalShares, cashBalance, holdings
\* and the cost map unchanged, and every other transaction of the ledger, the later
\* ones included, is applied: at every point of both loops and in what they return,
\* the values are those of the ledger without its symbol-less trades.
C15_SymbollessSkipped == SymbollessStep /\ SymbollessResult

\* both passes have returned for a ledger whose first two entries are a BUY and a
\* SELL without symbol and whose third, a BUY of A, was applied
C15_Witness ==
    /\ fundState # None
    /\ costBasisMap # None
    /\ Len(IncludedTransactions) = 3
    /\ Symbolless(IncludedTransactions[1]) /\ IncludedTransactions[1].type = "BUY"
    /\ Symbolless(IncludedTransactions[2]) /\ IncludedTransactions[2].type = "SELL"
    /\ fundState[1].holdings = MapSet(EmptyMap, "A", Num(2))
    /\ fundState[1].cashBalance = Num(-4)
    /\ costBasisMap[1] = MapSet(EmptyMap, "A", Num(4))

\* ------------------------------------------------------------ C18
\* txs with tx put after the last entry whose date is not later than tx's
RECURSIVE InsertByDate(_, _)
InsertByDate(txs, tx) ==
    IF txs = <<>> THEN <<tx>>
    ELSE IF StrLeq(txs[Len(txs)].date, tx.date) THEN Append(txs, tx)
    ELSE Append(InsertByDate(SubSeq(txs, 1, Len(txs) - 1), tx), txs[Len(txs)])

\* txs stably sorted by date ascending
RECURSIVE SortByDate(_)
SortByDate(txs) ==
    IF txs = <<>> THEN <<>>
    ELSE InsertByDate(SortByDate(SubSeq(txs, 1, Len(txs) - 1)), txs[Len(txs)])

\* C18: the FundState and the cost map returned for a ledger are those of the same
\* transactions stably sorted by date ascending.
C18_DateOrder ==
    /\ fundState # None =>
          fundState[1] = FundStateOf(SortByDate(IncludedTransactions), initialQuotaValue)
    /\ costBasisMap # None =>
          costBasisMap[1] = CostBasisOfLedger(SortByDate(IncludedTransactions))

\* ============================================================ the Convex tables
\* The tables portfolioTransactions and portfolioDaily are sequences of documents in
\* creation order: insert appends, patch changes a document where it is, and a query
\* with order("asc") and no index returns the documents in creation order.

\* the args of addTransaction: two ids, two dates, one deposit, for t1 with or
\* without the optional quotaValueAtTransaction
TransactionArgs ==
    { [transactionId |-> id, date |-> d, type |-> "DEPOSIT",
       amount |-> Num(4), usdValue |-> Num(4)] :
          id \in {"t1", "t2"}, d \in {D02, D10} }
    \cup
    { [transactionId |-> id, date |-> d, type |-> "DEPOSIT",
       amount |-> Num(4), usdValue |-> Num(4), quotaValueAtTransaction |-> Num(4)] :
          id \in {"t1"}, d \in {D02, D10} }

\* the args of portfolioDaily.upsert: two dates, two valuations
DailyArgs ==
    { [date |-> d, portfolioValue |-> v[1], totalShares |-> v[2]] :
          d \in {D02, D10}, v \in {<<Num(9), Num(3)>>, <<Num(7), Num(2)>>} }

\* the args of replaceSnapshot: an empty fund, and a fund with two dated trades
SeedSnapshots ==
    { [tokens |-> <<>>, transactions |-> <<>>,
       settings |-> [baselineTotalValue |-> Zero, initialQuotaValue |-> Num(2)]],
      [tokens |-> <<ACOIN>>,
       transactions |->
           << [transactionId |-> "t1", date |-> D02, type |-> "BUY", tokenSymbol |-> "A",
               amount |-> Num(2), usdValue |-> Num(4)],
              [transactionId |-> "t2", date |-> D10, type |-> "BUY", tokenSymbol |-> "A",
               amount |-> Num(2), usdValue |-> Num(4)] >>,
       settings |-> [baselineTotalValue |-> Num(4), initialQuotaValue |-> Num(2)]] }

\* the positions of the documents with this transactionId (index by_transaction_id)
WithTransactionId(table, id) == {i \in 1 .. Len(table) : table[i].transactionId = id}

\* Variant: only the rows dated after fromDate are deleted (gt for gte).
deleteDailyAfterDate(daily, fromDate) ==
    SelectSeq(daily, LAMBDA doc : StrLeq(doc.date, fromDate))

\* deleteDailyFromDate: the rows dated fromDate or later are deleted
deleteDailyFromDate(daily, fromDate) ==
    SelectSeq(daily, LAMBDA doc : ~StrLeq(fromDate, doc.date))

\* ctx.db.patch(id, fields): the fields given are set, the others are kept
PatchDoc(doc, fields) ==
    [f \in DOMAIN doc \cup DOMAIN fields |-> IF f \in DOMAIN fields THEN fields[f] ELSE doc[f]]

\* ctx.db.patch(existing._id, {...args}): the document keeps its place
PatchTransaction(table, i, args) == [table EXCEPT ![i] = PatchDoc(table[i], args)]

\* the positions of the rows of this date (index by_date)
WithDate(daily, date) == {i \in 1 .. Len(daily) : daily[i].date = date}

\* Variant: an upsert always inserts a row.
InsertDaily(daily, args) == Append(daily, args)

\* portfolioDaily.upsert: patch the row of the date, or insert one
UpsertRow(daily, args) ==
    IF WithDate(daily, args.date) # {}
    THEN [daily EXCEPT ![CHOOSE j \in WithDate(daily, args.date) : TRUE] =
             PatchDoc(@, [portfolioValue |-> args.portfolioValue,
                          totalShares |-> args.totalShares])]
    ELSE Append(daily, args)

\* a field of a document, undefined when the document does not have it
FieldOf(doc, f) == IF f \in DOMAIN doc THEN doc[f] ELSE Undefined

ConvexInit ==
    /\ transactions = <<>>
    /\ upToDate = UndefinedDate
    /\ initialQuotaValue = Num(2)
    /\ pc = "idle"
    /\ filteredTransactions = <<>>
    /\ idx = 0
    /\ totalShares = Zero
    /\ cashBalance = Zero
    /\ holdings = EmptyMap
    /\ costBasis = EmptyMap
    /\ costHoldings = EmptyMap
    /\ fundState = None
    /\ costBasisMap = None
    /\ summary = None
    /\ tokens = <<>>
    /\ currentPrices = EmptyMap
    /\ baselineTotalValue = Zero
    /\ portfolio = None
    /\ tableItems = None
    /\ historyValue = None
    /\ requested = None
    /\ portfolioTransactions = <<>>
    /\ portfolioDaily = <<>>
    /\ snapshot = None
    /\ WorkflowsIdle

\* what no Convex function touches: the client's replay and valuation
outsideConvex == <<transactions, upToDate, pc, filteredTransactions, idx, totalShares,
                   cashBalance, holdings, costBasis, costHoldings, fundState,
                   costBasisMap, summary, currentPrices, portfolio, tableItems,
                   historyValue, requested, workflows>>

\* the writes of addTransaction(args); unique() throws on two documents of one id
AddTransactionWrites(args) ==
    LET existing == WithTransactionId(portfolioTransactions, args.transactionId)
    IN  /\ Cardinality(existing) <= 1
        /\ IF existing # {}
           THEN LET i == CHOOSE j \in existing : TRUE
                    old == portfolioTransactions[i]
                    invalidationDate == IF old.date # args.date /\ StrLeq(old.date, args.date)
                                        THEN old.date ELSE args.date
                IN  /\ portfolioDaily' = deleteDailyFromDate(portfolioDaily, invalidationDate)
                    /\ portfolioTransactions' = PatchTransaction(portfolioTransactions, i, args)
           ELSE /\ portfolioDaily' = deleteDailyFromDate(portfolioDaily, args.date)
                /\ portfolioTransactions' = Append(portfolioTransactions, args)

\* mutation addTransaction(args)
AddTransactionWith(args) ==
    /\ AddTransactionWrites(args)
    /\ UNCHANGED <<outsideConvex, tokens, initialQuotaValue, baselineTotalValue, snapshot>>

AddTransaction == \E args \in TransactionArgs : AddTransactionWith(args)

\* mutation replaceSnapshot(args): every table is emptied and filled from args
ReplaceSnapshot ==
    \E args \in SeedSnapshots :
        /\ tokens' = args.tokens
        /\ portfolioTransactions' = args.transactions
        /\ baselineTotalValue' = args.settings.baselineTotalValue
        /\ initialQuotaValue' = args.settings.initialQuotaValue
        /\ portfolioDaily' = <<>>
        /\ UNCHANGED <<outsideConvex, snapshot>>

\* mutation portfolioDaily.upsert(args); unique() throws on two rows of one date
UpsertDailyWith(args) ==
    /\ Cardinality(WithDate(portfolioDaily, args.date)) <= 1
    /\ portfolioDaily' = UpsertRow(portfolioDaily, args)
    /\ UNCHANGED <<outsideConvex, tokens, initialQuotaValue, baselineTotalValue,
                   portfolioTransactions, snapshot>>

UpsertDaily == \E args \in DailyArgs : UpsertDailyWith(args)

\* query getSnapshot(): the tables in creation order
GetSnapshot ==
    /\ snapshot' = Some([tokens |-> tokens,
                         transactions |->
                             [i \in 1 .. Len(portfolioTransactions) |->
                                 [id |-> portfolioTransactions[i].transactionId,
                                  date |-> portfolioTransactions[i].date,
                                  type |-> portfolioTransactions[i].type,
                                  tokenSymbol |->
                                      IF "tokenSymbol" \in DOMAIN portfolioTransactions[i]
                                      THEN portfolioTransactions[i].tokenSymbol
                                      ELSE UndefinedSymbol,
                                  amount |-> portfolioTransactions[i].amount,
                                  priceAtTransaction |->
                                      FieldOf(portfolioTransactions[i], "priceAtTransaction"),
                                  quotaValueAtTransaction |->
                                      FieldOf(portfolioTransactions[i], "quotaValueAtTransaction"),
                                  usdValue |-> portfolioTransactions[i].usdValue]],
                         settings |-> [baselineTotalValue |-> baselineTotalValue,
                                       initialQuotaValue |-> initialQuotaValue]])
    /\ UNCHANGED <<outsideConvex, tokens, initialQuotaValue, baselineTotalValue,
                   portfolioTransactions, portfolioDaily>>

ConvexNext ==
    \/ AddTransaction
    \/ ReplaceSnapshot
    \/ UpsertDaily
    \/ GetSnapshot

ConvexSpec == ConvexInit /\ [][ConvexNext]_vars

\* ------------------------------------------------------------ C19
\* C19: the transactions getSnapshot returns are sorted by date ascending.
C19_SnapshotSortedByDate ==
    snapshot # None =>
        \A i, j \in 1 .. Len(snapshot[1].transactions) :
            i < j => StrLeq(snapshot[1].transactions[i].date, snapshot[1].transactions[j].date)

\* ------------------------------------------------------------ C21
UniqueDates(daily) == \A i, j \in 1 .. Len(daily) : daily[i].date = daily[j].date => i = j

\* the rows of the other dates, in their order
RowsNotOf(daily, date) == SelectSeq(daily, LAMBDA row : row.date # date)

\* C21: the table never has two rows of one date, and an upsert leaves exactly one
\* row of its date, with the portfolioValue and totalShares it was called with, and
\* the rows of the other dates as they were.
C21_DailyKeyedByDate ==
    [][/\ UniqueDates(portfolioDaily')
       /\ \A args \in DailyArgs :
             UpsertDailyWith(args) =>
                 /\ Cardinality(WithDate(portfolioDaily', args.date)) = 1
                 /\ \A i \in WithDate(portfolioDaily', args.date) :
                       /\ portfolioDaily'[i].portfolioValue = args.portfolioValue
                       /\ portfolioDaily'[i].totalShares = args.totalShares
                 /\ RowsNotOf(portfolioDaily', args.date) = RowsNotOf(portfolioDaily, args.date)]_vars

\* the row of day 02 was written with (9, 3) and upserted again with (7, 2), next to
\* a row of day 10
C21_Witness ==
    /\ Len(portfolioDaily) = 2
    /\ portfolioDaily[1] = [date |-> D10, portfolioValue |-> Num(9), totalShares |-> Num(3)]
    /\ portfolioDaily[2] = [date |-> D02, portfolioValue |-> Num(7), totalShares |-> Num(2)]

\* ------------------------------------------------------------ C22
UniqueIds(table) ==
    \A i, j \in 1 .. Len(table) : table[i].transactionId = table[j].transactionId => i = j

\* C22: the ledger never has two transactions of one transactionId; addTransaction
\* with an id already present makes the record of that id the record of the call,
\* at the position it had, and changes no other record; with a new id it appends
\* one record.
C22_LedgerKeyedById ==
    [][/\ UniqueIds(portfolioTransactions')
       /\ \A args \in TransactionArgs :
             AddTransactionWith(args) =>
                 LET existing == WithTransactionId(portfolioTransactions, args.transactionId)
                 IN  IF existing # {}
                     THEN /\ Len(portfolioTransactions') = Len(portfolioTransactions)
                          /\ \A i \in 1 .. Len(portfolioTransactions) :
                                IF i \in existing
                                THEN portfolioTransactions'[i] = args
                                ELSE portfolioTransactions'[i] = portfolioTransactions[i]
                     ELSE /\ Len(portfolioTransactions') = Len(portfolioTransactions) + 1
                          /\ SubSeq(portfolioTransactions', 1, Len(portfolioTransactions))
                                = portfolioTransactions
                          /\ portfolioTransactions'[Len(portfolioTransactions')] = args]_vars

\* ============================================================ pricing ids
BTC == Token("bitcoin", "BTC", "Btc", "coinmarketcap", "BTC", "REGULAR")

PricingRegistries == SubSeqs(<<STETH, ETH, BITB, BTC, ACOIN>>)

\* tokenIds.add(id): a Set keeps the order of first insertion
SetAdd(ids, id) == IF \E i \in 1 .. Len(ids) : ids[i] = id THEN ids ELSE Append(ids, id)

RECURSIVE getUniqueTokenIdsForPricing(_)
getUniqueTokenIdsForPricing(registry) ==
    IF registry = <<>> THEN <<>>
    ELSE LET tokenIds == getUniqueTokenIdsForPricing(SubSeq(registry, 1, Len(registry) - 1))
             token == registry[Len(registry)]
         IN  IF token.specialCalculation = "ETH_AMOUNT" THEN SetAdd(tokenIds, "ethereum")
             ELSE IF token.specialCalculation = "BTC_AMOUNT" THEN SetAdd(tokenIds, "bitcoin")
             ELSE IF token.specialCalculation \in {UndefinedSymbol, "REGULAR"}
                  THEN SetAdd(tokenIds, token.id)
             ELSE tokenIds

\* tokens.filter(token => !token.specialCalculation || token.specialCalculation === 'REGULAR')
NeedsPrice(token) == token.specialCalculation \in {UndefinedSymbol, "", "REGULAR"}

Ids(registry) == {registry[i].id : i \in 1 .. Len(registry)}

\* fetchPricesWithPreferredAPI: what it asks of the two sources and the keys of the
\* price map it returns, when CoinGecko throws or not and CoinMarketCap throws or
\* not; a source that answers has a price for everything asked.
fetchPricesWithPreferredAPI(registry, coingeckoFails, cmcFails) ==
    LET tokensNeedingPrices == SelectSeq(registry, NeedsPrice)
        coingeckoTokens ==
            SelectSeq(tokensNeedingPrices, LAMBDA t : t.preferredAPI = "coingecko")
        cmcTokens ==
            SelectSeq(tokensNeedingPrices, LAMBDA t : t.preferredAPI = "coinmarketcap")
        fallbackTokens == SelectSeq(coingeckoTokens, LAMBDA t : Truthy(t.cmcSymbol))
        cmcWithSymbol == SelectSeq(cmcTokens, LAMBDA t : Truthy(t.cmcSymbol))
    IN  [coingeckoIds |-> Ids(coingeckoTokens),
         cmcIds |-> Ids(cmcWithSymbol)
                    \cup (IF coingeckoFails THEN Ids(fallbackTokens) ELSE {}),
         prices |-> (IF coingeckoFails
                     THEN (IF cmcFails THEN {} ELSE Ids(fallbackTokens))
                     ELSE Ids(coingeckoTokens))
                    \cup (IF cmcFails THEN {} ELSE Ids(cmcWithSymbol))]

PricingInit ==
    /\ transactions = <<>>
    /\ upToDate = UndefinedDate
    /\ initialQuotaValue = Num(2)
    /\ pc = "idle"
    /\ filteredTransactions = <<>>
    /\ idx = 0
    /\ totalShares = Zero
    /\ cashBalance = Zero
    /\ holdings = EmptyMap
    /\ costBasis = EmptyMap
    /\ costHoldings = EmptyMap
    /\ fundState = None
    /\ costBasisMap = None
    /\ summary = None
    /\ tokens \in PricingRegistries
    /\ currentPrices = EmptyMap
    /\ baselineTotalValue = Zero
    /\ portfolio = None
    /\ tableItems = None
    /\ historyValue = None
    /\ requested = None
    /\ portfolioTransactions = <<>>
    /\ portfolioDaily = <<>>
    /\ snapshot = None
    /\ WorkflowsIdle

\* what asking for prices leaves alone: everything but the ids asked for
outsidePricing == <<inputs, pc, filteredTransactions, idx, totalShares, cashBalance,
                    holdings, costBasis, costHoldings, fundState, costBasisMap, summary,
                    tokens, currentPrices, baselineTotalValue, portfolio, tableItems,
                    historyValue, portfolioTransactions, portfolioDaily, snapshot,
                    workflows>>

\* the historical fetch and the backfill: getUniqueTokenIdsForPricing(tokens)
RequestHistorical ==
    /\ requested' = Some([path |-> "historical",
                          ids |-> {getUniqueTokenIdsForPricing(tokens)[i] :
                                      i \in 1 .. Len(getUniqueTokenIdsForPricing(tokens))},
                          prices |-> {}])
    /\ UNCHANGED outsidePricing

\* GET /api/prices: fetchPricesWithPreferredAPI(tokens)
FetchLive ==
    \E coingeckoFails, cmcFails \in BOOLEAN :
        LET fetched == fetchPricesWithPreferredAPI(tokens, coingeckoFails, cmcFails)
        IN  /\ requested' = Some([path |-> "live",
                                  ids |-> fetched.coingeckoIds \cup fetched.cmcIds,
                                  prices |-> fetched.prices])
            /\ UNCHANGED outsidePricing

PricingNext ==
    \/ RequestHistorical
    \/ FetchLive

PricingSpec == PricingInit /\ [][PricingNext]_vars

\* ------------------------------------------------------------ C20
HasSpecial(registry, special) ==
    \E i \in 1 .. Len(registry) : registry[i].specialCalculation = special

\* C20: on either path, the ids requested contain 'ethereum' when the registry has an
\* ETH_AMOUNT token and 'bitcoin' when it has a BTC_AMOUNT token.
C20_SpecialIdsRequested ==
    requested # None =>
        /\ HasSpecial(tokens, "ETH_AMOUNT") => "ethereum" \in requested[1].ids
        /\ HasSpecial(tokens, "BTC_AMOUNT") => "bitcoin" \in requested[1].ids


(***************************************************************************)
(* Performance and aggregation of the valued portfolio (ValuationSpec).    *)
(***************************************************************************)

\* (currentValue - baseline) / baseline * 100, or 0 for a baseline of 0
RelativeChange(currentValue, baseline) ==
    IF baseline = Zero
    THEN Zero
    ELSE Div(Mul(Sub(currentValue, baseline), Num(100)), baseline)

\* the result of calculatePerformance is the relative change, flagged positive
\* exactly when it is >= 0
PerformanceOf(currentValue, baseline) ==
    LET result == calculatePerformance(currentValue, baseline)
    IN  /\ result.performance = RelativeChange(currentValue, baseline)
        /\ result.isPositive <=> Leq(Zero, result.performance)

\* C27: the performance of every portfolio item (against its cost basis) and the
\* total performance (against baselineTotalValue) are 0 when the baseline is 0
\* and (currentValue - baseline) / baseline * 100 otherwise, and isPositive is
\* true exactly when that performance is >= 0.
C27_Performance ==
    portfolio # None =>
        /\ \A i \in 1 .. Len(PortfolioItems) :
              /\ PortfolioItems[i].performance =
                     RelativeChange(PortfolioItems[i].currentValue, PortfolioItems[i].costBasis)
              /\ PerformanceOf(PortfolioItems[i].currentValue, PortfolioItems[i].costBasis)
        /\ portfolio[1].portfolioSummary.totalPerformance =
               RelativeChange(portfolio[1].portfolioSummary.totalValue, baselineTotalValue)
        /\ PerformanceOf(portfolio[1].portfolioSummary.totalValue, baselineTotalValue)

\* an item acquired for nothing (performance 0), one that lost its whole value
\* (-100, not positive), one that gained, and a total measured against a
\* baseline of 4
C27_Witness ==
    /\ portfolio # None
    /\ baselineTotalValue = Num(4)
    /\ Lt(Zero, portfolio[1].portfolioSummary.totalPerformance)
    /\ \E i, j, k \in 1 .. Len(PortfolioItems) :
          /\ PortfolioItems[i].costBasis = Zero
          /\ Lt(Zero, PortfolioItems[i].currentValue)
          /\ PortfolioItems[i].performance = Zero
          /\ PortfolioItems[j].performance = Num(-100)
          /\ ~calculatePerformance(PortfolioItems[j].currentValue,
                                   PortfolioItems[j].costBasis).isPositive
          /\ Lt(Zero, PortfolioItems[k].performance)

Categories == portfolio[1].portfolioSummary.categories

\* the number of occurrences of item in the sequence items
Occurrences(items, item) == Cardinality({i \in 1 .. Len(items) : items[i] = item})

\* C28: every portfolio item is in exactly one category group, the one of its
\* token's category; a group's totalValue is the sum of its items' currentValue,
\* the groups' totalValue sum to the grand total, and a group's percentage is
\* totalValue / grand total * 100, or 0 when the grand total is not positive.
C28_CategoryGroups ==
    portfolio # None =>
        LET total == TotalCurrentValue(PortfolioItems)
        IN  /\ \A i \in 1 .. Len(PortfolioItems) :
                  \E c \in 1 .. Len(Categories) :
                      /\ Categories[c].category = PortfolioItems[i].token.category
                      /\ Occurrences(Categories[c].items, PortfolioItems[i]) =
                             Occurrences(PortfolioItems, PortfolioItems[i])
                      /\ \A d \in 1 .. Len(Categories) :
                            d # c => Occurrences(Categories[d].items, PortfolioItems[i]) = 0
            /\ SumNums([c \in 1 .. Len(Categories) |-> Num(Len(Categories[c].items))]) =
                   Num(Len(PortfolioItems))
            /\ \A c, d \in 1 .. Len(Categories) :
                  c # d => Categories[c].category # Categories[d].category
            /\ \A c \in 1 .. Len(Categories) :
                  \A k \in 1 .. Len(Categories[c].items) :
                      Categories[c].items[k].token.category = Categories[c].category
            /\ \A c \in 1 .. Len(Categories) :
                  /\ Categories[c].totalValue =
                         SumNums([k \in 1 .. Len(Categories[c].items) |->
                                     Categories[c].items[k].currentValue])
                  /\ Categories[c].percentage =
                         IF Lt(Zero, total)
                         THEN Div(Mul(Categories[c].totalValue, Num(100)), total)
                         ELSE Zero
            /\ SumNums([c \in 1 .. Len(Categories) |-> Categories[c].totalValue]) = total

\* two groups, one of them with two items, and a positive grand total
C28_Witness ==
    /\ portfolio # None
    /\ Len(Categories) >= 2
    /\ Lt(Zero, TotalCurrentValue(PortfolioItems))
    /\ \E c, d \in 1 .. Len(Categories) :
          /\ Len(Categories[c].items) = 2
          /\ Lt(Zero, Categories[d].totalValue)
          /\ c # d

TableItems == tableItems[1]

OfCategory(items, category) ==
    SelectSeq(items, LAMBDA item : item.token.category = category)

OtherCategories(items) ==
    SelectSeq(items, LAMBDA item : item.token.category \notin {"Btc", "Eth"})

WithoutPercentage(items) ==
    [i \in 1 .. Len(items) |-> [items[i] EXCEPT !.percentage = Zero]]

\* the table's rows of a category: none when the portfolio has no item of it,
\* else one row carrying the sums and the performance of the summed value
\* against the summed cost
MergedCategory(category) ==
    LET members == OfCategory(PortfolioItems, category)
        rows == OfCategory(TableItems, category)
        value == SumNums([i \in 1 .. Len(members) |-> members[i].currentValue])
        cost == SumNums([i \in 1 .. Len(members) |-> members[i].costBasis])
    IN  IF members = <<>>
        THEN rows = <<>>
        ELSE /\ Len(rows) = 1
             /\ rows[1].amount = SumNums([i \in 1 .. Len(members) |-> members[i].amount])
             /\ rows[1].currentValue = value
             /\ rows[1].costBasis = cost
             /\ rows[1].performance = RelativeChange(value, cost)

\* C29: the table has one Btc row and one Eth row exactly when the portfolio has
\* items of those categories, with amount, currentValue and costBasis summed and
\* the performance recomputed from the sums; the items of the other categories
\* appear once, in the portfolio's order, unchanged except for their percentage.
C29_MergedTable ==
    tableItems # None =>
        /\ MergedCategory("Btc")
        /\ MergedCategory("Eth")
        /\ WithoutPercentage(OtherCategories(TableItems)) =
               WithoutPercentage(OtherCategories(PortfolioItems))

\* an Eth row merged from two items of different performance, a Btc row made of
\* a single item, and an item of another category
C29_Witness ==
    /\ tableItems # None
    /\ Len(OfCategory(PortfolioItems, "Eth")) = 2
    /\ OfCategory(PortfolioItems, "Eth")[1].performance #
           OfCategory(PortfolioItems, "Eth")[2].performance
    /\ Lt(Zero, OfCategory(TableItems, "Eth")[1].currentValue)
    /\ Len(OfCategory(PortfolioItems, "Btc")) = 1
    /\ OtherCategories(PortfolioItems) # <<>>


(***************************************************************************)
(* Frame of the replay engine (Spec).                                      *)
(***************************************************************************)

\* C25: no step of processTransactions or of calculateCostBasis, with or without
\* a cutoff, changes the transaction list passed in: the same transactions, in
\* the same order, with the same fields.
C25_InputUnchanged == [][transactions' = transactions]_vars

\* both functions have returned for a cutoff that leaves transactions out
C25_Witness ==
    /\ fundState # None
    /\ costBasisMap # None
    /\ pc = "idle"
    /\ upToDate # UndefinedDate
    /\ Len(filteredTransactions) < Len(transactions)
    /\ Len(filteredTransactions) > 0

IsCash(tx) == tx.type \in {"DEPOSIT", "WITHDRAW"}

\* the ledger without its DEPOSIT and WITHDRAW transactions
TradesOnly(txs) == SelectSeq(txs, LAMBDA tx : ~IsCash(tx))

\* C26: DEPOSIT and WITHDRAW transactions change neither the cost map nor the
\* running amounts: after every iteration of calculateCostBasis both are what the
\* loop computes for the transactions read so far with the DEPOSITs and WITHDRAWs
\* removed, and so is the map returned.
C26_CashLeavesCostBasis ==
    /\ pc = "calculateCostBasis" =>
           CostState(costBasis, costHoldings) =
               CostAll(InitialCostState, TradesOnly(Prefix(filteredTransactions, idx)))
    /\ costBasisMap # None =>
           costBasisMap[1] =
               CostBasisOfLedger(TradesOnly(filterTransactionsByDate(transactions, upToDate)))

\* a cost map returned for a ledger with a DEPOSIT between a BUY and a SELL
C26_Witness ==
    /\ costBasisMap # None
    /\ DOMAIN costBasisMap[1] # {}
    /\ upToDate = UndefinedDate
    /\ Len(transactions) = 3
    /\ transactions[1].type = "BUY"
    /\ IsCash(transactions[2])
    /\ transactions[3].type = "SELL"


(***************************************************************************)
(* The historical backfill (PortfolioHistorySection.tsx): handleBackfill   *)
(* walks the days without a stored snapshot, fetches the day's prices,     *)
(* replays the ledger as of that day and upserts one portfolioDaily row.   *)
(***************************************************************************)

D03 == <<0, 3>>
D04 == <<0, 4>>

\* format(new Date(), 'yyyy-MM-dd')
Today == D04

\* addDays(current, 1), within one month
NextDay(date) == IF date[2] < 9 THEN <<date[1], date[2] + 1>> ELSE <<date[1] + 1, 0>>

\* while (!isAfter(current, end)) { dates.push(...); current = addDays(current, 1) }
RECURSIVE buildDateRange(_, _)
buildDateRange(startDate, endDate) ==
    IF StrLeq(startDate, endDate)
    THEN <<startDate>> \o buildDateRange(NextDay(startDate), endDate)
    ELSE <<>>

\* transactionDates.reduce((min, date) => (date < min ? date : min)), <<>> for null
RECURSIVE getFirstTransactionDate(_)
getFirstTransactionDate(transactionDates) ==
    IF transactionDates = <<>> THEN None
    ELSE LET rest == getFirstTransactionDate(Tail(transactionDates))
         IN  IF rest = None \/ StrLeq(Head(transactionDates), rest[1])
             THEN Some(Head(transactionDates))
             ELSE rest

\* snapshot.transactions: the documents of the ledger as getSnapshot maps them
SnapshotTransactions(table) ==
    [i \in 1 .. Len(table) |->
        [id |-> table[i].transactionId,
         date |-> table[i].date,
         type |-> table[i].type,
         tokenSymbol |-> IF "tokenSymbol" \in DOMAIN table[i]
                         THEN table[i].tokenSymbol ELSE UndefinedSymbol,
         amount |-> table[i].amount,
         priceAtTransaction |-> FieldOf(table[i], "priceAtTransaction"),
         quotaValueAtTransaction |-> FieldOf(table[i], "quotaValueAtTransaction"),
         usdValue |-> table[i].usdValue]]

\* range.filter((date) => !existingDates.has(date))
missingDates(daily, first) ==
    SelectSeq(buildDateRange(first, Today), LAMBDA date : WithDate(daily, date) = {})

\* Variant: a day is saved whatever was fetched.
SkipsDayNever(prices) == FALSE

\* if (Object.keys(prices).length === 0) continue
SkipsDay(prices) == DOMAIN prices = {}

\* what handleBackfill hands to upsertDaily for the day, from what it captured
SnapshotArgs(run, date, prices) ==
    LET state == FundStateOf(filterTransactionsByDate(run.transactions, date),
                             run.initialQuotaValue)
    IN  [date |-> date,
         portfolioValue |-> calculatePortfolioValue(state, prices, run.tokens),
         totalShares |-> state.totalShares]

\* the ledgers a backfill starts from: a deposit, and a deposit followed by a buy
BackfillLedgers ==
    { << [transactionId |-> "t0", date |-> D02, type |-> "DEPOSIT",
          amount |-> Num(4), usdValue |-> Num(4)] >>,
      << [transactionId |-> "t0", date |-> D02, type |-> "DEPOSIT",
          amount |-> Num(4), usdValue |-> Num(4)],
         [transactionId |-> "b0", date |-> D03, type |-> "BUY", tokenSymbol |-> "A",
          amount |-> Num(1), usdValue |-> Num(2)] >> }

\* the rows stored before the backfill: none, or one of day 03 upserted earlier
StoredDailies ==
    { <<>>, << [date |-> D03, portfolioValue |-> Num(9), totalShares |-> Num(3)] >> }

\* the args of addTransaction while a backfill runs: a deposit of day 02 or 03
LateTransactionArgs ==
    { [transactionId |-> id, date |-> d, type |-> "DEPOSIT",
       amount |-> Num(4), usdValue |-> Num(4)] :
          id \in {"t0", "t1"}, d \in {D02, D03} }

BackfillInitFrom(dailies) ==
    /\ transactions = <<>>
    /\ upToDate = UndefinedDate
    /\ initialQuotaValue = Num(2)
    /\ pc = "idle"
    /\ filteredTransactions = <<>>
    /\ idx = 0
    /\ totalShares = Zero
    /\ cashBalance = Zero
    /\ holdings = EmptyMap
    /\ costBasis = EmptyMap
    /\ costHoldings = EmptyMap
    /\ fundState = None
    /\ costBasisMap = None
    /\ summary = None
    /\ tokens \in {<<>>, <<ACOIN>>}
    /\ currentPrices = EmptyMap
    /\ baselineTotalValue = Zero
    /\ portfolio = None
    /\ tableItems = None
    /\ historyValue = None
    /\ requested = None
    /\ portfolioTransactions \in BackfillLedgers
    /\ portfolioDaily \in dailies
    /\ snapshot = None
    /\ WorkflowsIdle

\* handleBackfill, up to the loop: the render's transactions, tokens, settings and
\* missingDates are captured for the whole run
StartBackfill ==
    LET first == getFirstTransactionDate(
                     [i \in 1 .. Len(portfolioTransactions) |-> portfolioTransactions[i].date])
    IN  /\ backfill.pc \in {"idle", "ended"}
        /\ first # None
        /\ missingDates(portfolioDaily, first[1]) # <<>>
        /\ backfill' = [pc |-> "fetching",
                        missingDates |-> missingDates(portfolioDaily, first[1]),
                        transactions |-> SnapshotTransactions(portfolioTransactions),
                        tokens |-> tokens,
                        initialQuotaValue |-> initialQuotaValue,
                        i |-> 0,
                        aborted |-> FALSE,
                        args |-> None]
        /\ UNCHANGED <<transactions, upToDate, initialQuotaValue, pc, filteredTransactions,
                       idx, totalShares, cashBalance, holdings, costBasis, costHoldings,
                       fundState, costBasisMap, summary, tokens, currentPrices,
                       baselineTotalValue, portfolio, tableItems, historyValue, requested,
                       portfolioTransactions, portfolioDaily, snapshot, replays, maps, provider, retry>>

\* one iteration up to upsertDaily: await fetchPricesForDate (every id answers
\* with a price or with none), then skip the day or replay and value it
FetchPricesForDate ==
    /\ backfill.pc = "fetching"
    /\ ~backfill.aborted
    /\ backfill.i < Len(backfill.missingDates)
    /\ LET date == backfill.missingDates[backfill.i + 1]
           tokenIds == getUniqueTokenIdsForPricing(backfill.tokens)
       IN  \E fetched \in SUBSET {tokenIds[k] : k \in 1 .. Len(tokenIds)} :
               LET prices == Restrict(AllPrices, fetched)
               IN  backfill' =
                       IF SkipsDay(prices)
                       THEN [backfill EXCEPT !.i = @ + 1]
                       ELSE [backfill EXCEPT !.pc = "saving",
                                             !.args = Some(SnapshotArgs(backfill, date, prices))]
    /\ UNCHANGED <<transactions, upToDate, initialQuotaValue, pc, filteredTransactions,
                   idx, totalShares, cashBalance, holdings, costBasis, costHoldings,
                   fundState, costBasisMap, summary, tokens, currentPrices,
                   baselineTotalValue, portfolio, tableItems, historyValue, requested,
                   portfolioTransactions, portfolioDaily, snapshot, replays, maps, provider, retry>>

\* await upsertDaily({date, portfolioValue, totalShares}): the mutation runs
SaveDaily ==
    /\ backfill.pc = "saving"
    /\ Cardinality(WithDate(portfolioDaily, backfill.args[1].date)) <= 1
    /\ portfolioDaily' = UpsertRow(portfolioDaily, backfill.args[1])
    /\ backfill' = [backfill EXCEPT !.pc = "fetching", !.i = @ + 1, !.args = None]
    /\ UNCHANGED <<transactions, upToDate, initialQuotaValue, pc, filteredTransactions,
                   idx, totalShares, cashBalance, holdings, costBasis, costHoldings,
                   fundState, costBasisMap, summary, tokens, currentPrices,
                   baselineTotalValue, portfolio, tableItems, historyValue, requested,
                   portfolioTransactions, snapshot, replays, maps, provider, retry>>

\* handleStop: abortRef.current.abort()
HandleStop ==
    /\ backfill.pc \in {"fetching", "saving"}
    /\ ~backfill.aborted
    /\ backfill' = [backfill EXCEPT !.aborted = TRUE]
    /\ UNCHANGED <<transactions, upToDate, initialQuotaValue, pc, filteredTransactions,
                   idx, totalShares, cashBalance, holdings, costBasis, costHoldings,
                   fundState, costBasisMap, summary, tokens, currentPrices,
                   baselineTotalValue, portfolio, tableItems, historyValue, requested,
                   portfolioTransactions, portfolioDaily, snapshot, replays, maps, provider, retry>>

\* the loop is left, by its condition or by the break on signal.aborted: finally
EndBackfill ==
    /\ backfill.pc = "fetching"
    /\ backfill.aborted \/ backfill.i = Len(backfill.missingDates)
    /\ backfill' = [backfill EXCEPT !.pc = "ended"]
    /\ UNCHANGED <<transactions, upToDate, initialQuotaValue, pc, filteredTransactions,
                   idx, totalShares, cashBalance, holdings, costBasis, costHoldings,
                   fundState, costBasisMap, summary, tokens, currentPrices,
                   baselineTotalValue, portfolio, tableItems, historyValue, requested,
                   portfolioTransactions, portfolioDaily, snapshot, replays, maps, provider, retry>>

BackfillNext ==
    \/ StartBackfill
    \/ FetchPricesForDate
    \/ SaveDaily
    \/ HandleStop
    \/ EndBackfill

BackfillInit == BackfillInitFrom(StoredDailies)

\* a backfill on its own
BackfillSpec == BackfillInit /\ [][BackfillNext]_vars

AddLateTransaction == \E args \in LateTransactionArgs : AddTransactionWith(args)

ConcurrentBackfillInit == BackfillInitFrom({<<>>})

ConcurrentBackfillNext ==
    \/ BackfillNext
    \/ AddLateTransaction

\* a backfill with addTransaction calls arriving while it runs
ConcurrentBackfillSpec == ConcurrentBackfillInit /\ [][ConcurrentBackfillNext]_vars


\* the rows of the table stored for a date
RowsOf(daily, date) == SelectSeq(daily, LAMBDA row : row.date = date)

\* row is the snapshot of its day for the ledger txs: totalShares of the replay
\* with the day as cutoff, and the cash-inclusive value for some fetched prices
SnapshotOfDay(row, txs, iq, registry) ==
    LET state == FundStateOf(filterTransactionsByDate(txs, row.date), iq)
    IN  /\ row.totalShares = state.totalShares
        /\ \E fetched \in SUBSET DOMAIN AllPrices :
               row.portfolioValue =
                   calculatePortfolioValue(state, Restrict(AllPrices, fetched), registry)

\* C23: when a backfill that was not stopped has ended, every day that had no
\* stored snapshot when it started has exactly one row, carrying the totalShares
\* and the cash-inclusive portfolioValue of the replay with that day as cutoff.
C23_BackfillPersistsMissingDays ==
    (backfill.pc = "ended" /\ ~backfill.aborted) =>
        \A k \in 1 .. Len(backfill.missingDates) :
            LET rows == RowsOf(portfolioDaily, backfill.missingDates[k])
            IN  /\ Len(rows) = 1
                /\ SnapshotOfDay(rows[1], backfill.transactions,
                                 backfill.initialQuotaValue, backfill.tokens)


\* C30: once a backfill has ended, every stored portfolioDaily row has the
\* totalShares of the replay of the ledger as it is now, with the row's date as
\* cutoff, whatever addTransaction calls arrived while the backfill was running.
C30_RowsFollowLedger ==
    backfill.pc = "ended" =>
        \A i \in 1 .. Len(portfolioDaily) :
            portfolioDaily[i].totalShares =
                FundStateOf(filterTransactionsByDate(SnapshotTransactions(portfolioTransactions),
                                                     portfolioDaily[i].date),
                            initialQuotaValue).totalShares


(***************************************************************************)
(* Replays side by side: every call of processTransactions has its own     *)
(* frame (filteredTransactions, totalShares, cashBalance) and the Map it   *)
(* creates; a Map is an object, held by reference.                         *)
(***************************************************************************)

ReplayIds == {"first", "second"}

\* the ledgers replayed side by side
InterleavedLedgers ==
    SeqsUpTo({ Tx("DEPOSIT", D02, UndefinedSymbol, Num(3), Undefined, Num(3)),
               Tx("BUY",     D02, "A",             Num(2), Undefined, Num(4)),
               Tx("BUY",     D10, "A",             Num(2), Undefined, Num(-2)),
               Tx("SELL",    D10, "A",             Num(1), Undefined, Num(3)) },
             MaxLen)

\* Variant: holdings is one Map created once and used by every call.
AllocateOnce(heap) == 1

\* const holdings = new Map(): the reference of an object that did not exist
Allocate(heap) == Len(heap) + 1

NotCalled ==
    [pc |-> "idle", upToDate |-> UndefinedDate, filteredTransactions |-> <<>>, idx |-> 0,
     totalShares |-> Zero, cashBalance |-> Zero, holdings |-> 0, result |-> None]

InterleavedInit ==
    /\ transactions \in InterleavedLedgers
    /\ upToDate = UndefinedDate
    /\ initialQuotaValue = Num(2)
    /\ pc = "idle"
    /\ filteredTransactions = <<>>
    /\ idx = 0
    /\ totalShares = Zero
    /\ cashBalance = Zero
    /\ holdings = EmptyMap
    /\ costBasis = EmptyMap
    /\ costHoldings = EmptyMap
    /\ fundState = None
    /\ costBasisMap = None
    /\ summary = None
    /\ tokens = <<>>
    /\ currentPrices = EmptyMap
    /\ baselineTotalValue = Zero
    /\ portfolio = None
    /\ tableItems = None
    /\ historyValue = None
    /\ requested = None
    /\ portfolioTransactions = <<>>
    /\ portfolioDaily = <<>>
    /\ snapshot = None
    /\ backfill = NoBackfill
    /\ replays = [r \in ReplayIds |-> NotCalled]
    /\ maps = <<>>
    /\ provider = NoProvider
    /\ retry = NoRetry

outsideReplays == <<inputs, pc, filteredTransactions, idx, totalShares, cashBalance,
                    holdings, costBasis, costHoldings, fundState, costBasisMap, summary,
                    tokens, currentPrices, baselineTotalValue, portfolio, tableItems,
                    historyValue, requested, portfolioTransactions, portfolioDaily,
                    snapshot, backfill, provider, retry>>

\* processTransactions(transactions, date, initialQuotaValue): entry, up to the loop
CallReplay(r) ==
    /\ replays[r].pc = "idle"
    /\ \E date \in Cutoffs :
          LET ref == Allocate(maps)
          IN  /\ maps' = IF ref > Len(maps) THEN Append(maps, EmptyMap) ELSE maps
              /\ replays' = [replays EXCEPT ![r] =
                                [pc |-> "processTransactions",
                                 upToDate |-> date,
                                 filteredTransactions |->
                                     filterTransactionsByDate(transactions, date),
                                 idx |-> 0,
                                 totalShares |-> InitialReplayState.totalShares,
                                 cashBalance |-> InitialReplayState.cashBalance,
                                 holdings |-> ref,
                                 result |-> None]]
    /\ UNCHANGED outsideReplays

\* one iteration of the loop of the call r
StepReplay(r) ==
    /\ replays[r].pc = "processTransactions"
    /\ replays[r].idx < Len(replays[r].filteredTransactions)
    /\ LET frame == replays[r]
           st == ApplyTransaction(ReplayState(frame.totalShares, frame.cashBalance,
                                              maps[frame.holdings]),
                                  frame.filteredTransactions[frame.idx + 1],
                                  initialQuotaValue)
       IN  /\ replays' = [replays EXCEPT ![r].totalShares = st.totalShares,
                                         ![r].cashBalance = st.cashBalance,
                                         ![r].idx = @ + 1]
           /\ maps' = [maps EXCEPT ![frame.holdings] = st.holdings]
    /\ UNCHANGED outsideReplays

\* the loop of the call r is over: the FundState returned holds the Map itself
ReturnReplay(r) ==
    /\ replays[r].pc = "processTransactions"
    /\ replays[r].idx = Len(replays[r].filteredTransactions)
    /\ replays' = [replays EXCEPT
                      ![r].pc = "returned",
                      ![r].result = Some(MakeFundState(replays[r].totalShares,
                                                       initialQuotaValue,
                                                       replays[r].cashBalance,
                                                       replays[r].holdings))]
    /\ UNCHANGED <<outsideReplays, maps>>

InterleavedNext ==
    \E r \in ReplayIds :
        \/ CallReplay(r)
        \/ StepReplay(r)
        \/ ReturnReplay(r)

InterleavedSpec == InterleavedInit /\ [][InterleavedNext]_vars

\* the FundState a call returned, with the Map it refers to as it is now
Returned(r) == [replays[r].result[1] EXCEPT !.holdings = maps[@]]

\* C24: whatever the interleaving, the FundState a replay has returned is, and
\* stays, the one the replay of the same ledger and cutoff computes alone, its
\* holdings map included, and no two calls hold the same Map.
C24_ReplaysShareNoState ==
    /\ \A r \in ReplayIds :
          replays[r].pc = "returned" =>
              Returned(r) = FundStateOf(filterTransactionsByDate(transactions,
                                                                 replays[r].upToDate),
                                        initialQuotaValue)
    /\ \A r, s \in ReplayIds :
          (r # s /\ replays[r].pc # "idle" /\ replays[s].pc # "idle") =>
              replays[r].holdings # replays[s].holdings

\* one replay has returned while the other, for another cutoff, is inside its
\* loop, and their holdings differ
C24_Witness ==
    /\ replays["first"].pc = "returned"
    /\ replays["second"].pc = "processTransactions"
    /\ replays["second"].idx > 0
    /\ replays["second"].idx < Len(replays["second"].filteredTransactions)
    /\ replays["first"].upToDate # replays["second"].upToDate
    /\ DOMAIN Returned("first").holdings # {}
    /\ Returned("first").holdings # maps[replays["second"].holdings]


(***************************************************************************)
(* Invalidation of the stored snapshots (ConvexSpec).                      *)
(***************************************************************************)

\* date a is earlier than date b
Earlier(a, b) == a # b /\ StrLeq(a, b)

\* the date from which addTransaction(args) invalidates: the date of the call,
\* or the date the transaction of that id had when that one is earlier
InvalidatedFrom(table, args) ==
    IF \E i \in WithTransactionId(table, args.transactionId) :
           Earlier(table[i].date, args.date)
    THEN (CHOOSE d \in {table[i].date : i \in WithTransactionId(table, args.transactionId)} :
              TRUE)
    ELSE args.date

\* C31: a step of addTransaction leaves no portfolioDaily row dated on or after
\* the transaction's date (for a replacement, the earlier of the old and the new
\* date) and leaves the earlier rows as they were, in their order; a step of
\* replaceSnapshot leaves no row at all.
C31_Invalidation ==
    [][/\ \A args \in TransactionArgs :
             AddTransactionWith(args) =>
                 LET from == InvalidatedFrom(portfolioTransactions, args)
                 IN  /\ \A i \in 1 .. Len(portfolioDaily') :
                           Earlier(portfolioDaily'[i].date, from)
                     /\ portfolioDaily' =
                            SelectSeq(portfolioDaily, LAMBDA row : Earlier(row.date, from))
       /\ ReplaceSnapshot => portfolioDaily' = <<>>]_vars

\* the ledger holds a transaction of day 10 and the only row left is of day 02
C31_Witness ==
    /\ Len(portfolioDaily) = 1
    /\ portfolioDaily[1].date = D02
    /\ Len(portfolioTransactions) = 2
    /\ \A i \in 1 .. Len(portfolioTransactions) : portfolioTransactions[i].date = D10


(***************************************************************************)
(* Relations between ledgers (Spec).                                       *)
(***************************************************************************)

\* the transactions a ledger can hold that are dated after the cutoff
LaterTransactions == {tx \in Transactions : DayNumber(tx.date) > DayNumber(upToDate)}

\* txs with tx put after its first p entries
InsertAt(txs, p, tx) == SubSeq(txs, 1, p) \o <<tx>> \o SubSeq(txs, p + 1, Len(txs))

\* txs without its entry p
RemoveAt(txs, p) == SubSeq(txs, 1, p - 1) \o SubSeq(txs, p + 1, Len(txs))

\* the ledgers that differ from txs by one transaction dated after the cutoff:
\* one added anywhere, one removed, one changed into another
LaterVariations(txs) ==
    {InsertAt(txs, p, tx) : p \in 0 .. Len(txs), tx \in LaterTransactions}
    \cup {RemoveAt(txs, p) : p \in {q \in 1 .. Len(txs) : txs[q] \in LaterTransactions}}
    \cup {[txs EXCEPT ![p] = tx] :
             p \in {q \in 1 .. Len(txs) : txs[q] \in LaterTransactions},
             tx \in LaterTransactions}

\* C32: the FundState and the cost map returned for a cutoff are also those of
\* every ledger that differs by a transaction dated after the cutoff, added at any
\* place, removed or changed (results are looked at when no call is running).
C32_LaterTransactionsIgnored ==
    (pc = "idle" /\ IsDate(upToDate)) =>
        \A txs \in LaterVariations(transactions) :
            /\ fundState # None =>
                   fundState[1] = FundStateOf(filterTransactionsByDate(txs, upToDate),
                                              initialQuotaValue)
            /\ costBasisMap # None =>
                   costBasisMap[1] = CostBasisOfLedger(filterTransactionsByDate(txs, upToDate))

\* both results returned for cutoff 02 and a ledger that starts with a transaction
\* of day 10, followed by a trade of day 02
C32_Witness ==
    /\ pc = "idle"
    /\ fundState # None
    /\ costBasisMap # None
    /\ IsDate(upToDate)
    /\ Len(transactions) = 3
    /\ transactions[1] \in LaterTransactions
    /\ transactions[2].type = "BUY"
    /\ transactions[2] \notin LaterTransactions
    /\ DOMAIN costBasisMap[1] # {}
    /\ DOMAIN fundState[1].holdings # {}


\* the orders the entries of txs can be put in
Permuted(txs) ==
    {[i \in 1 .. Len(txs) |-> txs[f[i]]] :
        f \in {g \in [1 .. Len(txs) -> 1 .. Len(txs)] :
                  \A i, j \in 1 .. Len(txs) : g[i] = g[j] => i = j}}

\* C33: the FundState returned for a ledger is the FundState of the same
\* transactions in every other order: totalShares, cashBalance and every holding.
C33_OrderIndependent ==
    (pc = "idle" /\ fundState # None) =>
        \A txs \in Permuted(IncludedTransactions) :
            LET other == FundStateOf(txs, initialQuotaValue)
            IN  /\ other.totalShares = fundState[1].totalShares
                /\ other.cashBalance = fundState[1].cashBalance
                /\ other.holdings = fundState[1].holdings

\* a ledger with a BUY and a SELL for which another order gives the same
\* FundState but another cost map
C33_Witness ==
    /\ pc = "idle"
    /\ fundState # None
    /\ costBasisMap # None
    /\ DOMAIN fundState[1].holdings # {}
    /\ \E txs \in Permuted(IncludedTransactions) :
          /\ txs # IncludedTransactions
          /\ FundStateOf(txs, initialQuotaValue) = fundState[1]
          /\ CostBasisOfLedger(txs) # costBasisMap[1]


\* amount of symbol in a map of amounts, 0 when the map has no such key
AmountIn(m, symbol) == OrZero(MapGet(m, symbol))

\* holdings of the replay of txs
HeldAfter(txs) == ReplayAll(InitialReplayState, txs, initialQuotaValue).holdings

\* every BUY and SELL of txs has a positive amount, and no SELL of a symbol is of
\* more than the replay holds of it at that point
WithoutOversell(txs) ==
    \A k \in 1 .. Len(txs) :
        (txs[k].type \in {"BUY", "SELL"} /\ HasSymbol(txs[k])) =>
            /\ Lt(Zero, txs[k].amount)
            /\ txs[k].type = "SELL" =>
                   Leq(txs[k].amount, AmountIn(HeldAfter(Prefix(txs, k - 1)), txs[k].tokenSymbol))

\* C34: while the transactions read so far have positive amounts and no SELL
\* exceeded the amount held, the cost tracker's running amount of every symbol is
\* the holding of the replay of the same transactions, and a symbol whose holding
\* is 0 has cost basis 0.
C34_TrackerFollowsHoldings ==
    (pc = "calculateCostBasis" /\ WithoutOversell(Prefix(filteredTransactions, idx))) =>
        LET held == HeldAfter(Prefix(filteredTransactions, idx))
        IN  \A symbol \in DOMAIN held \cup DOMAIN costHoldings \cup DOMAIN costBasis :
                /\ AmountIn(costHoldings, symbol) = AmountIn(held, symbol)
                /\ AmountIn(held, symbol) = Zero => AmountIn(costBasis, symbol) = Zero

\* the tracker has read a BUY of 2 A and two SELLs of 1 A: nothing is held, and
\* the cost basis of A, which was 4, is 0
C34_Witness ==
    /\ pc = "calculateCostBasis"
    /\ idx = 3
    /\ WithoutOversell(Prefix(filteredTransactions, idx))
    /\ filteredTransactions[1].type = "BUY"
    /\ filteredTransactions[1].usdValue = Num(4)
    /\ filteredTransactions[2].type = "SELL"
    /\ filteredTransactions[3].type = "SELL"
    /\ "A" \in DOMAIN costHoldings
    /\ costHoldings["A"] = Zero
    /\ costBasis["A"] = Zero


(***************************************************************************)
(* Share value across transactions: the ledger grows by one transaction at *)
(* a time and is replayed and valued after each, as the history does per   *)
(* day (processTransactions, then calculatePortfolioValue), prices fixed.  *)
(***************************************************************************)

\* the ledgers the fund starts from: a deposit of 4 at the initial quota value,
\* then 1 A bought for 4 or for 2
FundedLedgers ==
    { << Tx("DEPOSIT", D02, UndefinedSymbol, Num(4), Undefined, Num(4)),
         Tx("BUY",     D02, "A",             Num(1), Undefined, usd) >> :
          usd \in {Num(4), Num(2)} }

\* the prices of the day: every id priced, or a-coin without a price
FixedPrices == {AllPrices, Restrict(AllPrices, DOMAIN AllPrices \ {"a-coin"})}

\* entry.totalShares === 0 ? 0 : entry.portfolioValue / entry.totalShares
shareValue(value, shares) == IF shares = Zero THEN Zero ELSE Div(value, shares)

\* the price calculatePortfolioValue values a holding of the symbol with
PriceOfSymbol(symbol) == HoldingValue(tokens, symbol, Num(1), currentPrices)

\* a deposit or withdrawal at the share value of the moment, a trade at the
\* price of the moment
FairTransactions ==
    { Tx(type, D10, UndefinedSymbol, usd, shareValue(historyValue[1], fundState[1].totalShares), usd) :
          type \in {"DEPOSIT", "WITHDRAW"}, usd \in {Num(2), Num(4)} }
    \cup
    { Tx(type, D10, symbol, Num(1), Undefined, PriceOfSymbol(symbol)) :
          type \in {"BUY", "SELL"}, symbol \in {"A", "STETH"} }

\* transactions at other terms
OtherTransactions ==
    { Tx("DEPOSIT", D10, UndefinedSymbol, Num(2), Undefined, Num(2)),
      Tx("SELL",    D10, "A",             Num(1), Undefined, Num(5)) }

FairValueInit ==
    /\ transactions \in FundedLedgers
    /\ upToDate = UndefinedDate
    /\ initialQuotaValue = Num(2)
    /\ pc = "idle"
    /\ filteredTransactions = <<>>
    /\ idx = 0
    /\ totalShares = Zero
    /\ cashBalance = Zero
    /\ holdings = EmptyMap
    /\ costBasis = EmptyMap
    /\ costHoldings = EmptyMap
    /\ tokens = <<STETH, ACOIN>>
    /\ currentPrices \in FixedPrices
    /\ fundState = Some(FundStateOf(transactions, initialQuotaValue))
    /\ historyValue = Some(calculatePortfolioValue(fundState[1], currentPrices, tokens))
    /\ costBasisMap = None
    /\ summary = None
    /\ baselineTotalValue = Zero
    /\ portfolio = None
    /\ tableItems = None
    /\ requested = None
    /\ portfolioTransactions = <<>>
    /\ portfolioDaily = <<>>
    /\ snapshot = None
    /\ WorkflowsIdle

outsideFairValue == <<upToDate, initialQuotaValue, pc, filteredTransactions, idx,
                      totalShares, cashBalance, holdings, costBasis, costHoldings,
                      costBasisMap, summary, tokens, currentPrices, baselineTotalValue,
                      portfolio, tableItems, requested, portfolioTransactions,
                      portfolioDaily, snapshot, workflows>>

\* the ledger can take one more transaction
LedgerOpen == Len(transactions) < Len(<<"DEPOSIT", "BUY">>) + MaxLen

\* processTransactions(transactions, date, initialQuotaValue)
Replayed(txs) == FundStateOf(filterTransactionsByDate(txs, upToDate), initialQuotaValue)

\* a transaction at fair value joins the ledger; the ledger is replayed and valued
ExecuteAtFairValue ==
    /\ LedgerOpen
    /\ \E tx \in FairTransactions :
          /\ transactions' = Append(transactions, tx)
          /\ fundState' = Some(Replayed(Append(transactions, tx)))
          /\ historyValue' = Some(calculatePortfolioValue(Replayed(Append(transactions, tx)),
                                                          currentPrices, tokens))
    /\ UNCHANGED outsideFairValue

\* a transaction at other terms joins the ledger; the ledger is replayed and valued
ExecuteOtherwise ==
    /\ LedgerOpen
    /\ \E tx \in OtherTransactions :
          /\ transactions' = Append(transactions, tx)
          /\ fundState' = Some(Replayed(Append(transactions, tx)))
          /\ historyValue' = Some(calculatePortfolioValue(Replayed(Append(transactions, tx)),
                                                          currentPrices, tokens))
    /\ UNCHANGED outsideFairValue

FairValueNext ==
    \/ ExecuteAtFairValue
    \/ ExecuteOtherwise

FairValueSpec == FairValueInit /\ [][FairValueNext]_vars

\* the share value of the fund as it is
ShareValueNow == Div(historyValue[1], fundState[1].totalShares)

\* tx is executed at fair value in the present state
AtFairValue(tx) ==
    \/ /\ tx.type \in {"DEPOSIT", "WITHDRAW"}
       /\ tx.quotaValueAtTransaction = ShareValueNow
    \/ /\ tx.type \in {"BUY", "SELL"}
       /\ FindToken(tokens, tx.tokenSymbol) # None
       /\ tx.usdValue = Mul(tx.amount, PriceOfSymbol(tx.tokenSymbol))

\* C35: a transaction executed at fair value, with totalShares non-zero before
\* and after it, leaves the share value (cash-inclusive value / totalShares) as
\* it was.
C35_FairValueKeepsShareValue ==
    [][(/\ Len(transactions') = Len(transactions) + 1
        /\ AtFairValue(transactions'[Len(transactions')])
        /\ fundState[1].totalShares # Zero
        /\ fundState'[1].totalShares # Zero)
       => ShareValueNow' = ShareValueNow]_vars


(***************************************************************************)
(* The backfill request by request: fetchPricesForDate asks for one token  *)
(* at a time, waits after a rate limit and between tokens, and every wait  *)
(* and request is cut short by handleStop.  A step runs from one await to  *)
(* the next.                                                               *)
(***************************************************************************)

\* what a request for one token's price ends with
Responses == {"price", "404", "429", "error", "AbortError"}

\* Variant: the loop over the tokens goes on whatever the signal.
TokenLoopBreaksNever(run) == FALSE

\* fetchPricesForDate: if (signal.aborted) break
TokenLoopBreaks(run) == run.aborted

\* fetchPricesForDate at the top of the loop over the tokens: the next request is
\* issued, or the prices collected so far are returned
EnterToken(run) ==
    IF run.k = Len(run.tokenIds) \/ TokenLoopBreaks(run)
    THEN [run EXCEPT !.pc = "returned"]
    ELSE [run EXCEPT !.pc = "request"]

\* fetchPricesForDate after the while loop of a token: the pause between tokens,
\* unless this was the last token or the run is stopped
AfterToken(run) ==
    IF run.k + 1 < Len(run.tokenIds) /\ ~run.aborted
    THEN [run EXCEPT !.pc = "delay"]
    ELSE EnterToken([run EXCEPT !.k = @ + 1])

\* handleBackfill at the top of the loop over the dates
EnterDate(run) ==
    IF run.aborted \/ run.i = Len(run.missingDates)
    THEN [run EXCEPT !.pc = "ended"]
    ELSE EnterToken([run EXCEPT !.k = 0, !.prices = EmptyMap])

\* Variant: the request is repeated after the wait whatever the signal.
RetriesAlways(run) == TRUE

\* while (!fetched && !signal.aborted), reached by continue after the wait
Retries(run) == ~run.aborted

\* Variant: the prices returned are used whatever the signal.
BreaksAfterFetchNever(run) == FALSE

\* handleBackfill after fetchPricesForDate: if (abortController.signal.aborted) break
BreaksAfterFetch(run) == run.aborted

RequestsInit ==
    /\ transactions = <<>>
    /\ upToDate = UndefinedDate
    /\ initialQuotaValue = Num(2)
    /\ pc = "idle"
    /\ filteredTransactions = <<>>
    /\ idx = 0
    /\ totalShares = Zero
    /\ cashBalance = Zero
    /\ holdings = EmptyMap
    /\ costBasis = EmptyMap
    /\ costHoldings = EmptyMap
    /\ fundState = None
    /\ costBasisMap = None
    /\ summary = None
    /\ tokens \in {<<ACOIN>>, <<STETH, ACOIN>>}
    /\ currentPrices = EmptyMap
    /\ baselineTotalValue = Zero
    /\ portfolio = None
    /\ tableItems = None
    /\ historyValue = None
    /\ requested = None
    /\ portfolioTransactions =
           << [transactionId |-> "t0", date |-> D03, type |-> "DEPOSIT",
               amount |-> Num(4), usdValue |-> Num(4)] >>
    /\ portfolioDaily = <<>>
    /\ snapshot = None
    /\ WorkflowsIdle

outsideRequests == <<transactions, upToDate, initialQuotaValue, pc, filteredTransactions,
                     idx, totalShares, cashBalance, holdings, costBasis, costHoldings,
                     fundState, costBasisMap, summary, tokens, currentPrices,
                     baselineTotalValue, portfolio, tableItems, historyValue, requested,
                     portfolioTransactions, snapshot, replays, maps, provider, retry>>

\* handleBackfill, from the click to its first await
StartRun ==
    LET first == getFirstTransactionDate(
                     [j \in 1 .. Len(portfolioTransactions) |-> portfolioTransactions[j].date])
    IN  /\ backfill.pc = "idle"
        /\ first # None
        /\ missingDates(portfolioDaily, first[1]) # <<>>
        /\ backfill' = EnterDate([pc |-> "loop",
                                  missingDates |-> missingDates(portfolioDaily, first[1]),
                                  transactions |-> SnapshotTransactions(portfolioTransactions),
                                  tokens |-> tokens,
                                  initialQuotaValue |-> initialQuotaValue,
                                  i |-> 0,
                                  aborted |-> FALSE,
                                  args |-> None,
                                  tokenIds |-> getUniqueTokenIdsForPricing(tokens),
                                  k |-> 0,
                                  prices |-> EmptyMap])
        /\ UNCHANGED <<outsideRequests, portfolioDaily>>

\* await fetchSingleTokenHistoricalPrice(tokenId, date, signal) settles; a stopped
\* request rejects with AbortError
Respond ==
    /\ backfill.pc = "request"
    /\ \E response \in Responses :
          /\ response = "AbortError" => backfill.aborted
          /\ backfill' =
                 CASE response = "price" ->
                          AfterToken([backfill EXCEPT !.prices =
                              MapSet(@, backfill.tokenIds[backfill.k + 1],
                                     AllPrices[backfill.tokenIds[backfill.k + 1]])])
                   [] response = "429" -> [backfill EXCEPT !.pc = "backoff"]
                   [] OTHER -> AfterToken(backfill)
    /\ UNCHANGED <<outsideRequests, portfolioDaily>>

\* await sleepWithAbort(RATE_LIMIT_BACKOFF_MS, signal) resolves, by its timer or by
\* the abort; continue
BackoffOver ==
    /\ backfill.pc = "backoff"
    /\ backfill' = IF Retries(backfill)
                   THEN [backfill EXCEPT !.pc = "request"]
                   ELSE AfterToken(backfill)
    /\ UNCHANGED <<outsideRequests, portfolioDaily>>

\* await sleepWithAbort(BACKFILL_DELAY_MS, signal) resolves
DelayOver ==
    /\ backfill.pc = "delay"
    /\ backfill' = EnterToken([backfill EXCEPT !.k = @ + 1])
    /\ UNCHANGED <<outsideRequests, portfolioDaily>>

\* handleBackfill after await fetchPricesForDate, up to await upsertDaily
PricesReturned ==
    /\ backfill.pc = "returned"
    /\ backfill' =
           IF BreaksAfterFetch(backfill) THEN [backfill EXCEPT !.pc = "ended"]
           ELSE IF SkipsDay(backfill.prices) THEN EnterDate([backfill EXCEPT !.i = @ + 1])
           ELSE [backfill EXCEPT
                    !.pc = "saving",
                    !.args = Some(SnapshotArgs(backfill,
                                               backfill.missingDates[backfill.i + 1],
                                               backfill.prices))]
    /\ UNCHANGED <<outsideRequests, portfolioDaily>>

\* await upsertDaily(...) settles: the mutation has run
DailySaved ==
    /\ backfill.pc = "saving"
    /\ Cardinality(WithDate(portfolioDaily, backfill.args[1].date)) <= 1
    /\ portfolioDaily' = UpsertRow(portfolioDaily, backfill.args[1])
    /\ backfill' = EnterDate([backfill EXCEPT !.i = @ + 1, !.args = None])
    /\ UNCHANGED outsideRequests

\* handleStop, enabled while isBackfilling && !isStopping
StopRun ==
    /\ backfill.pc \notin {"idle", "ended"}
    /\ ~backfill.aborted
    /\ backfill' = [backfill EXCEPT !.aborted = TRUE]
    /\ UNCHANGED <<outsideRequests, portfolioDaily>>

\* what the run does by itself: every await settles
RunSteps ==
    \/ Respond
    \/ BackoffOver
    \/ DelayOver
    \/ PricesReturned
    \/ DailySaved

RequestsNext ==
    \/ StartRun
    \/ RunSteps
    \/ StopRun

RequestsSpec == RequestsInit /\ [][RequestsNext]_vars

\* every request is answered or rejected, every timer fires, every mutation runs
RequestsFairSpec == RequestsSpec /\ WF_vars(RunSteps)

\* C36: once the run is stopped it starts no upsert: the call of upsertDaily is
\* only made by a run that is not stopped, and the table only changes by a call
\* made before.
C36_NoUpsertAfterStop ==
    [][/\ (backfill'.pc = "saving" /\ backfill.pc # "saving") => ~backfill.aborted
       /\ portfolioDaily' # portfolioDaily => backfill.pc = "saving"]_vars

\* the run was stopped during the requests of a day, with the price of one of two
\* tokens collected, and has ended without a row for that day
C36_Witness ==
    /\ backfill.pc = "ended"
    /\ backfill.aborted
    /\ Len(backfill.tokenIds) = 2
    /\ Cardinality(DOMAIN backfill.prices) = 1
    /\ WithDate(portfolioDaily, backfill.missingDates[backfill.i + 1]) = {}


\* a request answered 429, or the wait after it coming to its end in a run that is
\* not stopped
RateLimitedStep ==
    \/ backfill.pc = "request" /\ backfill'.pc = "backoff"
    \/ backfill.pc = "backoff" /\ ~backfill.aborted

\* C37: a stopped run ends by itself, whatever the provider answers; and a rate
\* limited token is asked for again: the step keeps the day, the token and the
\* prices collected, and leads to the wait or to the next request for that token.
C37_StoppedRunEnds ==
    /\ backfill.aborted ~> backfill.pc = "ended"
    /\ [][RateLimitedStep =>
              /\ backfill'.pc \in {"backoff", "request"}
              /\ backfill'.i = backfill.i
              /\ backfill'.k = backfill.k
              /\ backfill'.prices = backfill.prices]_vars

\* a stopped run waiting after a 429 for the second token of its second day
C37_Witness ==
    /\ backfill.pc = "backoff"
    /\ backfill.aborted
    /\ backfill.i = 1
    /\ backfill.k = 1


(***************************************************************************)
(* PortfolioDateProvider.  provider holds the state the provider last      *)
(* rendered with (selectedDate, historicalPrices, isFetchingHistorical),   *)
(* abortControllerRef, the effect of the last render as long as it has not *)
(* run, and one record per call of fetchHistoricalPrices with its          *)
(* AbortController.  React runs the effect of a render after that render   *)
(* and before the next one.                                                *)
(***************************************************************************)

\* selectedDate === null: today
NullDate == <<>>

\* abortControllerRef.current === null
NullRef == 0

SelectableDates == {D02, D03}

\* the PriceData a request for a token and a date is answered with
HistoricalPrice(tokenId, date) == [price |-> AllPrices[tokenId], date |-> date]

\* the provider after its first render and the effect of that render
ProviderMounted ==
    [selectedDate |-> NullDate, historicalPrices |-> EmptyMap,
     isFetchingHistorical |-> FALSE, effectPending |-> FALSE,
     ref |-> NullRef, cleanup |-> NullRef, loops |-> <<>>]

DateInit ==
    /\ transactions = <<>>
    /\ upToDate = UndefinedDate
    /\ initialQuotaValue = Num(2)
    /\ pc = "idle"
    /\ filteredTransactions = <<>>
    /\ idx = 0
    /\ totalShares = Zero
    /\ cashBalance = Zero
    /\ holdings = EmptyMap
    /\ costBasis = EmptyMap
    /\ costHoldings = EmptyMap
    /\ fundState = None
    /\ costBasisMap = None
    /\ summary = None
    /\ tokens = <<STETH, ACOIN>>
    /\ currentPrices = EmptyMap
    /\ baselineTotalValue = Zero
    /\ portfolio = None
    /\ tableItems = None
    /\ historyValue = None
    /\ requested = None
    /\ portfolioTransactions = <<>>
    /\ portfolioDaily = <<>>
    /\ snapshot = None
    /\ backfill = NoBackfill
    /\ replays = <<>>
    /\ maps = <<>>
    /\ provider = ProviderMounted
    /\ retry = NoRetry

outsideProvider == <<transactions, upToDate, initialQuotaValue, pc, filteredTransactions,
                     idx, totalShares, cashBalance, holdings, costBasis, costHoldings,
                     fundState, costBasisMap, summary, tokens, currentPrices,
                     baselineTotalValue, portfolio, tableItems, historyValue, requested,
                     portfolioTransactions, portfolioDaily, snapshot, backfill, replays,
                     maps, retry>>

\* abortController.abort() on the controller c, if there is one
Aborted(loops, c) ==
    IF c = NullRef THEN loops ELSE [loops EXCEPT ![c].aborted = TRUE]

\* setSelectedDate(date) with another date than the selected one, and the render
\* that follows: the effect is left to run
SetSelectedDate ==
    /\ ~provider.effectPending
    /\ \E date \in SelectableDates \cup {NullDate} :
          /\ date # provider.selectedDate
          /\ date # NullDate => Len(provider.loops) < MaxLen
          /\ provider' = [provider EXCEPT !.selectedDate = date, !.effectPending = TRUE]
    /\ UNCHANGED outsideProvider

\* cancelHistoricalFetch, and the render that follows
CancelHistoricalFetch ==
    /\ ~provider.effectPending
    /\ provider' = [provider EXCEPT
                       !.loops = Aborted(@, provider.ref),
                       !.ref = NullRef,
                       !.isFetchingHistorical = FALSE,
                       !.historicalPrices = EmptyMap,
                       !.effectPending = provider.selectedDate # NullDate,
                       !.selectedDate = NullDate]
    /\ UNCHANGED outsideProvider

\* the effect on [selectedDate]: the cleanup of the effect before, then the body up
\* to the first await of fetchHistoricalPrices, and the render that follows
RunEffect ==
    /\ provider.effectPending
    /\ LET cleaned == Aborted(provider.loops, provider.cleanup)
           tokenIds == getUniqueTokenIdsForPricing(tokens)
           controller == Len(provider.loops) + 1
       IN  provider' =
               IF provider.selectedDate = NullDate
               THEN [provider EXCEPT
                        !.loops = cleaned,
                        !.cleanup = NullRef,
                        !.historicalPrices = EmptyMap,
                        !.isFetchingHistorical = FALSE,
                        !.effectPending = FALSE]
               ELSE [provider EXCEPT
                        !.loops = Append(Aborted(cleaned, provider.ref),
                                         [date |-> provider.selectedDate,
                                          aborted |-> FALSE,
                                          pc |-> IF tokenIds = <<>> THEN "done" ELSE "request",
                                          tokenIds |-> tokenIds,
                                          i |-> 0,
                                          accumulatedPrices |-> EmptyMap]),
                        !.ref = controller,
                        !.cleanup = controller,
                        !.historicalPrices = EmptyMap,
                        !.isFetchingHistorical = tokenIds # <<>>,
                        !.effectPending = FALSE]
    /\ UNCHANGED outsideProvider

\* return, or the end of the loop: the finally block of fetchHistoricalPrices
LoopReturns(p, c) ==
    [p EXCEPT !.loops[c].pc = "done",
              !.isFetchingHistorical = IF p.loops[c].aborted THEN @ ELSE FALSE,
              !.ref = IF @ = c THEN NullRef ELSE @]

\* the top of the for loop over the tokens, with i already set
LoopTop(p, c) ==
    IF p.loops[c].i = Len(p.loops[c].tokenIds) \/ p.loops[c].aborted
    THEN LoopReturns(p, c)
    ELSE [p EXCEPT !.loops[c].pc = "request"]

\* after the try of one token: the wait before the next request
AfterRequest(p, c) ==
    IF p.loops[c].i + 1 < Len(p.loops[c].tokenIds) /\ ~p.loops[c].aborted
    THEN [p EXCEPT !.loops[c].pc = "wait"]
    ELSE LoopTop([p EXCEPT !.loops[c].i = @ + 1], c)

\* setHistoricalPrices({ ...accumulatedPrices }) in a loop: a call made between a
\* render and the effect of that render comes before the setHistoricalPrices({})
\* of the effect, and the next render shows the later of the two
ShownPrices(p, c, prices) ==
    IF p.effectPending THEN p.historicalPrices ELSE prices

\* await fetchSingleTokenHistoricalPrice(tokenId, selectedDate, signal) settles in
\* the loop of controller c: with the price, with an error, or, the controller
\* aborted, with AbortError
RequestSettles ==
    \E c \in 1 .. Len(provider.loops) :
        LET loop == provider.loops[c]
            tokenId == loop.tokenIds[loop.i + 1]
            prices == MapSet(loop.accumulatedPrices, tokenId,
                             HistoricalPrice(tokenId, loop.date))
        IN  /\ loop.pc = "request"
            /\ \E response \in {"price", "error"} :
                  provider' =
                      IF loop.aborted THEN LoopReturns(provider, c)
                      ELSE IF response = "price"
                      THEN AfterRequest(
                               [provider EXCEPT
                                   !.loops[c].accumulatedPrices = prices,
                                   !.historicalPrices = ShownPrices(provider, c, prices)],
                               c)
                      ELSE AfterRequest(provider, c)
            /\ UNCHANGED outsideProvider

\* the wait of HISTORICAL_FETCH_DELAY_MS resolves, by its timer or by the abort
WaitOver ==
    \E c \in 1 .. Len(provider.loops) :
        /\ provider.loops[c].pc = "wait"
        /\ provider' = LoopTop([provider EXCEPT !.loops[c].i = @ + 1], c)
        /\ UNCHANGED outsideProvider

DateNext ==
    \/ SetSelectedDate
    \/ CancelHistoricalFetch
    \/ RunEffect
    \/ RequestSettles
    \/ WaitOver

DateSpec == DateInit /\ [][DateNext]_vars

\* the dates the prices of historicalPrices were asked for
DatesShown ==
    {provider.historicalPrices[tokenId].date : tokenId \in DOMAIN provider.historicalPrices}

\* C38: historicalPrices only holds prices of the selected date, and none when no
\* date is selected.
C38_PricesOfSelectedDate ==
    /\ DatesShown \subseteq {provider.selectedDate}
    /\ provider.selectedDate = NullDate => provider.historicalPrices = EmptyMap

\* the same once the effect of the render has run
C38_AfterEffect == provider.effectPending \/ C38_PricesOfSelectedDate

\* a loop stopped by a later selection or by a cancel, with a price collected,
\* while another date is selected
C38_Witness ==
    \E c \in 1 .. Len(provider.loops) :
        /\ provider.loops[c].aborted
        /\ provider.loops[c].pc = "done"
        /\ provider.loops[c].accumulatedPrices # EmptyMap
        /\ provider.selectedDate \in SelectableDates \ {provider.loops[c].date}
        /\ provider.historicalPrices # EmptyMap


(***************************************************************************)
(* fetchPricesWithRetry and fetchHistoricalPricesWithRetry: the same loop  *)
(* around fetchPrices and fetchHistoricalPrices.  retry holds the frame of *)
(* one call, the number of requests it has made and the delays it has      *)
(* handed to setTimeout.                                                   *)
(***************************************************************************)

\* the largest maxRetries a call is made with
MaxRetries == 5

RetryFunctions == {"fetchPricesWithRetry", "fetchHistoricalPricesWithRetry"}

\* what an attempt throws: fetch rejects, or the answer is not ok or has no prices
ErrorMessages == {"Failed to fetch", "No prices received from API"}

\* the Error thrown by the attempt-th call
ErrorOf(message, attempt) == [error |-> message, attempt |-> attempt]

\* the response the attempt-th call resolves with
ResponseOf(attempt) == [prices |-> AllPrices, attempt |-> attempt]

\* throw lastError || new Error('Failed to fetch prices after retries')
LastErrorOr(lastError) ==
    IF lastError = None THEN [error |-> "Failed to fetch prices after retries", attempt |-> 0]
    ELSE lastError[1]

Min(a, b) == IF a <= b THEN a ELSE b

\* Math.min(1000 * Math.pow(2, attempt - 1), 5000)
RetryDelay(attempt) == Min(1000 * 2 ^ (attempt - 1), 5000)

\* Variant: every failed attempt is followed by a wait.
IsLastAttemptNever(attempt, maxRetries) == FALSE

\* if (attempt === maxRetries)
IsLastAttempt(attempt, maxRetries) == attempt = maxRetries

\* the for statement with attempt set: the next call, or the throw after the loop
EnterAttempt(frame) ==
    IF frame.attempt <= frame.maxRetries
    THEN [frame EXCEPT !.pc = "attempting", !.calls = @ + 1]
    ELSE [frame EXCEPT !.pc = "rejected", !.settled = Some(LastErrorOr(frame.lastError))]

RetryInit ==
    /\ transactions = <<>>
    /\ upToDate = UndefinedDate
    /\ initialQuotaValue = Num(2)
    /\ pc = "idle"
    /\ filteredTransactions = <<>>
    /\ idx = 0
    /\ totalShares = Zero
    /\ cashBalance = Zero
    /\ holdings = EmptyMap
    /\ costBasis = EmptyMap
    /\ costHoldings = EmptyMap
    /\ fundState = None
    /\ costBasisMap = None
    /\ summary = None
    /\ tokens = <<STETH, ACOIN>>
    /\ currentPrices = EmptyMap
    /\ baselineTotalValue = Zero
    /\ portfolio = None
    /\ tableItems = None
    /\ historyValue = None
    /\ requested = None
    /\ portfolioTransactions = <<>>
    /\ portfolioDaily = <<>>
    /\ snapshot = None
    /\ WorkflowsIdle

outsideRetry == <<transactions, upToDate, initialQuotaValue, pc, filteredTransactions,
                  idx, totalShares, cashBalance, holdings, costBasis, costHoldings,
                  fundState, costBasisMap, summary, tokens, currentPrices,
                  baselineTotalValue, portfolio, tableItems, historyValue, requested,
                  portfolioTransactions, portfolioDaily, snapshot, backfill, replays,
                  maps, provider>>

\* the call, up to the first await or to the throw
CallWithRetry ==
    /\ retry = NoRetry
    /\ \E fn \in RetryFunctions, maxRetries \in 0 .. MaxRetries :
          retry' = EnterAttempt([fn |-> fn, maxRetries |-> maxRetries, pc |-> "called",
                                 attempt |-> 1, lastError |-> None, calls |-> 0,
                                 delays |-> <<>>, settled |-> None])
    /\ UNCHANGED outsideRetry

\* return await fetchPrices(forceRefresh) resolves
AttemptSucceeds ==
    /\ retry # NoRetry
    /\ retry.pc = "attempting"
    /\ retry' = [retry EXCEPT !.pc = "resolved", !.settled = Some(ResponseOf(retry.attempt))]
    /\ UNCHANGED outsideRetry

\* await fetchPrices(forceRefresh) rejects: the catch block
AttemptFails ==
    /\ retry # NoRetry
    /\ retry.pc = "attempting"
    /\ \E message \in ErrorMessages :
          LET lastError == ErrorOf(message, retry.attempt)
          IN  retry' =
                  IF IsLastAttempt(retry.attempt, retry.maxRetries)
                  THEN [retry EXCEPT !.pc = "rejected",
                                     !.lastError = Some(lastError),
                                     !.settled = Some(lastError)]
                  ELSE [retry EXCEPT !.pc = "waiting",
                                     !.lastError = Some(lastError),
                                     !.delays = Append(@, RetryDelay(retry.attempt))]
    /\ UNCHANGED outsideRetry

\* the timer of the wait fires: attempt++
RetryDelayOver ==
    /\ retry # NoRetry
    /\ retry.pc = "waiting"
    /\ retry' = EnterAttempt([retry EXCEPT !.attempt = @ + 1])
    /\ UNCHANGED outsideRetry

\* what the call does by itself: every request settles, every timer fires
RetrySteps ==
    \/ AttemptSucceeds
    \/ AttemptFails
    \/ RetryDelayOver

RetryNext ==
    \/ CallWithRetry
    \/ RetrySteps

RetrySpec == RetryInit /\ [][RetryNext]_vars

RetryFairSpec == RetrySpec /\ WF_vars(RetrySteps)

RetrySettled == retry # NoRetry /\ retry.pc \in {"resolved", "rejected"}

\* 1000, 2000, 4000, then 5000
RECURSIVE DoubledDelay(_)
DoubledDelay(attempt) ==
    IF attempt = 1 THEN 1000
    ELSE IF 2 * DoubledDelay(attempt - 1) > 5000 THEN 5000
    ELSE 2 * DoubledDelay(attempt - 1)

\* the call has made no more than maxRetries requests; it has waited once after
\* every request but the one in flight or the last, for the delay of that attempt;
\* it resolves with the response of its last request and rejects, after maxRetries
\* failed requests, with the error of the last
RetryAsClaimed ==
    retry # NoRetry =>
        /\ retry.calls <= retry.maxRetries
        /\ Len(retry.delays) =
               IF retry.pc = "waiting" THEN retry.calls
               ELSE IF retry.calls = 0 THEN 0 ELSE retry.calls - 1
        /\ \A n \in 1 .. Len(retry.delays) : retry.delays[n] = DoubledDelay(n)
        /\ retry.pc = "resolved" => retry.settled = Some(ResponseOf(retry.calls))
        /\ (retry.pc = "rejected" /\ retry.maxRetries > 0) =>
               /\ retry.calls = retry.maxRetries
               /\ retry.settled = retry.lastError
               /\ retry.settled[1].attempt = retry.calls

\* C39: the two functions make at most maxRetries attempts, return the first
\* response, wait the doubled delay capped at 5000 between attempts only, reject
\* with the last error after maxRetries failures, and every call settles.
C39_RetryTerminates ==
    /\ []RetryAsClaimed
    /\ (retry # NoRetry) ~> RetrySettled

\* a call with maxRetries 5 rejected after five requests and the four waits
C39_Witness ==
    /\ retry # NoRetry
    /\ retry.pc = "rejected"
    /\ retry.calls = 5
    /\ retry.delays = <<1000, 2000, 4000, 5000>>


\* C40: the table is a fixed point of aggregateBitcoinEthereumCategories: merging
\* the merged table again gives the same rows in the same order, with the same
\* amount, currentValue, costBasis, performance and percentage.
C40_MergeIdempotent ==
    tableItems # None => aggregateBitcoinEthereumCategories(TableItems) = TableItems

\* a table whose Eth row was merged from two items, next to a row of another
\* category with a share of the total, merged again without change
C40_Witness ==
    /\ tableItems # None
    /\ Len(OfCategory(PortfolioItems, "Eth")) = 2
    /\ Len(TableItems) < Len(PortfolioItems)
    /\ \E i \in 1 .. Len(TableItems) :
          /\ TableItems[i].token.category \notin {"Btc", "Eth"}
          /\ Lt(Zero, TableItems[i].percentage)
    /\ aggregateBitcoinEthereumCategories(TableItems) = TableItems
    /\ aggregateBitcoinEthereumCategories(PortfolioItems) # PortfolioItems

====
